---- MODULE Spec2Model ----
(***************************************************************************)
(* DB6502 emulator core: the device chain and address bus, the interrupt   *)
(* aggregator, the 65C51 ACIA device, firmware loading, the catch-up tick  *)
(* driver and the paste injector.                                          *)
(*                                                                         *)
(* The machine state is kept in one record per operation: every C function *)
(* is an operator from the machine record to the machine record, so a      *)
(* handler that calls other functions is the composition of their          *)
(* operators.  The module's variables are the fields of that record.       *)
(***************************************************************************)
EXTENDS Integers, Sequences, FiniteSets, TLC

VARIABLES
  devices,            \* devices[0..deviceCount-1], as the sequence of device kinds
  cpuDevice,          \* index of the CPU device in the chain, or NoDevice (NULL)
  romDevice,          \* index of the ROM device, or NoDevice (NULL)
  aciaDevice,         \* index of the ACIA device, or NoDevice (NULL)
  ram,                \* contents of the RAM device at the observed cells
  romData,            \* contents of the ROM device (every byte of the image)
  commandReg,         \* AciaDevice.commandReg
  controlReg,         \* AciaDevice.controlReg
  statusReg,          \* AciaDevice.statusReg
  rxBuffer,           \* AciaDevice.rxBuffer[256], at the cells written so far
  rxHead,             \* AciaDevice.rxHead
  rxTail,             \* AciaDevice.rxTail
  termBuffer,         \* AciaDevice.termBuffer[0..termLen-1]
  termNul,            \* index of the '\0' stored last in AciaDevice.termBuffer
  termScrollToBottom, \* AciaDevice.termScrollToBottom
  cursorX,            \* AciaDevice.cursorX
  irqs,               \* irqs[MAX_IRQS]
  cpuInt,             \* the signal last handed to interrupt6502
  cpuState,           \* the state last handed to debug6502State
  programLoaded,      \* programLoaded
  aciaPasteQueue,     \* aciaPasteQueue
  kbQueueMutex,       \* how many times the main thread holds kbQueueMutex
  calls,              \* the calls into devices made by the operation in progress
  pc,                 \* position of the main thread
  batches,            \* doTick: batches
  b,                  \* doTick: loop counter b
  lastTime,           \* doTick: static lastTime, in microseconds, or NoTime before the first call
  currentTime,        \* doTick: currentTime, in microseconds
  last,               \* the operation executed last and its result
  pasted,             \* every byte handed to hbc56PasteText so far, in order
  delivered,          \* every byte the paste injector handed to the ACIA, in order
  charSigned          \* whether the build's plain char is signed

machineVars == <<devices, cpuDevice, romDevice, aciaDevice, ram, romData,
                 commandReg, controlReg, statusReg, rxBuffer, rxHead, rxTail,
                 termBuffer, termNul, termScrollToBottom, cursorX, irqs, cpuInt,
                 cpuState,
                 programLoaded, aciaPasteQueue, kbQueueMutex, calls>>
tickVars == <<pc, batches, b, lastTime, currentTime>>
vars == <<machineVars, tickVars, last, pasted, delivered, charSigned>>

----------------------------------------------------------------------------
(* Program constants *)

HBC56_CLOCK_FREQ == 4000000
HBC56_MAX_DEVICES == 16
HBC56_RAM_START == 0
HBC56_RAM_SIZE == 32768
HBC56_ROM_START == 32768
HBC56_ROM_SIZE == 32768
HBC56_RAM_END == HBC56_RAM_START + HBC56_RAM_SIZE
HBC56_ROM_END == HBC56_ROM_START + HBC56_ROM_SIZE
HBC56_ACIA_ADDR == 33792
HBC56_ACIA_IRQ == 2
MAX_IRQS == 5

ACIA_DATA_REG == 0
ACIA_STATUS_REG == 1
ACIA_COMMAND_REG == 2
ACIA_CONTROL_REG == 3
ACIA_STATUS_OVRN == 4
ACIA_STATUS_RDRF == 8
ACIA_STATUS_TDRE == 16
ACIA_STATUS_IRQ == 128
ACIA_CMD_RX_IRQ == 2
ACIA_RX_BUF_SIZE == 256
ACIA_RX_BUF_MASK == ACIA_RX_BUF_SIZE - 1
ACIA_TERM_BUF_SIZE == 65536

READ_PTR == 0
WRITE_PTR == 1
PASTE_THRESHOLD == 192

INTERRUPT_RELEASE == "RELEASE"
INTERRUPT_RAISE == "RAISE"
INTERRUPT_TRIGGER == "TRIGGER"
CPU_RUNNING == "RUNNING"
CPU_BREAK == "BREAK"

NoDevice == -1

CR == 13
LF == 10
BS == 8
TAB == 9
DEL == 127

----------------------------------------------------------------------------
(* Fixed-width arithmetic *)

Byte(n) == n % 256

\* (v & mask) != 0 for a mask of one bit
BitSet(v, mask) == (v \div mask) % 2 = 1

\* v | mask and v & ~mask for a mask of one bit
SetBit(v, mask) == IF BitSet(v, mask) THEN v ELSE v + mask
ClearBit(v, mask) == IF BitSet(v, mask) THEN v - mask ELSE v

Call(fn, dev, sig, n) == [fn |-> fn, dev |-> dev, sig |-> sig, n |-> n]

----------------------------------------------------------------------------
(* The machine record of the current state *)

M == [devices |-> devices, cpuDevice |-> cpuDevice, romDevice |-> romDevice,
      aciaDevice |-> aciaDevice, ram |-> ram, romData |-> romData,
      commandReg |-> commandReg, controlReg |-> controlReg,
      statusReg |-> statusReg, rxBuffer |-> rxBuffer, rxHead |-> rxHead,
      rxTail |-> rxTail, termBuffer |-> termBuffer,
      termNul |-> termNul,
      termScrollToBottom |-> termScrollToBottom, cursorX |-> cursorX,
      irqs |-> irqs, cpuInt |-> cpuInt, cpuState |-> cpuState,
      programLoaded |-> programLoaded, aciaPasteQueue |-> aciaPasteQueue,
      kbQueueMutex |-> kbQueueMutex,
      calls |-> <<>>, charSigned |-> charSigned]

Commit(s) ==
  /\ devices' = s.devices
  /\ cpuDevice' = s.cpuDevice
  /\ romDevice' = s.romDevice
  /\ aciaDevice' = s.aciaDevice
  /\ ram' = s.ram
  /\ romData' = s.romData
  /\ commandReg' = s.commandReg
  /\ controlReg' = s.controlReg
  /\ statusReg' = s.statusReg
  /\ rxBuffer' = s.rxBuffer
  /\ rxHead' = s.rxHead
  /\ rxTail' = s.rxTail
  /\ termBuffer' = s.termBuffer
  /\ termNul' = s.termNul
  /\ termScrollToBottom' = s.termScrollToBottom
  /\ cursorX' = s.cursorX
  /\ irqs' = s.irqs
  /\ cpuInt' = s.cpuInt
  /\ cpuState' = s.cpuState
  /\ programLoaded' = s.programLoaded
  /\ aciaPasteQueue' = s.aciaPasteQueue
  /\ kbQueueMutex' = s.kbQueueMutex
  /\ calls' = s.calls

deviceCount(s) == Len(s.devices)

Log(s, c) == [s EXCEPT !.calls = Append(@, c)]

\* SDL's mutexes are recursive: the owning thread may lock again, and holds
\* the mutex until it has unlocked as many times
SDL_LockMutex(s) ==
  Log([s EXCEPT !.kbQueueMutex = @ + 1],
      Call("SDL_LockMutex", NoDevice, "kbQueueMutex", s.kbQueueMutex + 1))

SDL_UnlockMutex(s) ==
  Log([s EXCEPT !.kbQueueMutex = @ - 1],
      Call("SDL_UnlockMutex", NoDevice, "kbQueueMutex", s.kbQueueMutex - 1))

\* an access to one of the queues shared with hbc56PasteText, logged with
\* the number of times the mutex is held at that moment
QueueAccess(s, queue, access) == Log(s, Call(queue, NoDevice, access, s.kbQueueMutex))

----------------------------------------------------------------------------
(* Interrupt aggregator *)

\* the loop of hbc56Interrupt leaving a TRIGGER entry in the table
RECURSIVE IrqScanKeepsTrigger(_, _, _)
IrqScanKeepsTrigger(q, i, signal) ==
  IF i >= MAX_IRQS THEN [irqs |-> q, signal |-> signal]
  ELSE IF q[i] = INTERRUPT_RAISE \/ q[i] = INTERRUPT_TRIGGER
    THEN IrqScanKeepsTrigger(q, i + 1, INTERRUPT_RAISE)
  ELSE IrqScanKeepsTrigger(q, i + 1, signal)

\* the loop of hbc56Interrupt over irqs[i .. MAX_IRQS-1]: the table with every
\* TRIGGER entry released, and the aggregate signal
RECURSIVE IrqScan(_, _, _)
IrqScan(q, i, signal) ==
  IF i >= MAX_IRQS THEN [irqs |-> q, signal |-> signal]
  ELSE IF q[i] = INTERRUPT_RAISE THEN IrqScan(q, i + 1, INTERRUPT_RAISE)
  ELSE IF q[i] = INTERRUPT_TRIGGER
    THEN IrqScan([q EXCEPT ![i] = INTERRUPT_RELEASE], i + 1, INTERRUPT_RAISE)
  ELSE IrqScan(q, i + 1, signal)

interrupt6502(s, signal) ==
  Log([s EXCEPT !.cpuInt = signal], Call("interrupt6502", s.cpuDevice, signal, 0))

debug6502State(s, state) ==
  Log([s EXCEPT !.cpuState = state], Call("debug6502State", s.cpuDevice, state, 0))

\* hbc56Interrupt handing the caller's signal to the CPU instead of the
\* aggregate of the table
hbc56InterruptRawSignal(s, irq, signal) ==
  IF irq = 0 \/ irq > MAX_IRQS THEN s
  ELSE
    LET s1 == [s EXCEPT !.irqs[irq - 1] = signal]
    IN IF s1.cpuDevice # NoDevice THEN interrupt6502(s1, signal) ELSE s1

\* hbc56Interrupt without the test irq > MAX_IRQS
hbc56InterruptNoUpperTest(s, irq, signal) ==
  IF irq = 0 THEN s
  ELSE
    LET s1 == IF irq <= MAX_IRQS THEN [s EXCEPT !.irqs[irq - 1] = signal] ELSE s
    IN IF s1.cpuDevice # NoDevice
         THEN LET r == IrqScan(s1.irqs, 0, INTERRUPT_RELEASE)
              IN interrupt6502([s1 EXCEPT !.irqs = r.irqs], r.signal)
         ELSE s1

hbc56Interrupt(s, irq, signal) ==
  IF irq = 0 \/ irq > MAX_IRQS THEN s
  ELSE
    LET s1 == [s EXCEPT !.irqs[irq - 1] = signal]
    IN IF s1.cpuDevice # NoDevice
         THEN LET r == IrqScan(s1.irqs, 0, INTERRUPT_RELEASE)
              IN interrupt6502([s1 EXCEPT !.irqs = r.irqs], r.signal)
         ELSE s1

----------------------------------------------------------------------------
(* 65C51 ACIA device *)

rxBufCount(s) == (s.rxHead - s.rxTail) % ACIA_RX_BUF_SIZE

\* rxBuffer[i]: a cell never written holds the 0 calloc left there
RxCell(s, i) == IF i \in DOMAIN s.rxBuffer THEN s.rxBuffer[i] ELSE 0

rxBufPush(s, byte) ==
  [s EXCEPT !.rxBuffer = (s.rxHead :> byte) @@ @,
            !.rxHead = (s.rxHead + 1) % ACIA_RX_BUF_SIZE]

\* the machine after rxBufPop; the byte returned is RxCell(s, s.rxTail)
rxBufPop(s) == [s EXCEPT !.rxTail = (s.rxTail + 1) % ACIA_RX_BUF_SIZE]

termLen(s) == Len(s.termBuffer)

\* (char)val compared as the build compares it: negative for val >= 0x80 when
\* plain char is signed
CharValue(s, val) == IF s.charSigned /\ val >= 128 THEN val - 256 ELSE val

TermAppend(s, ch) ==
  IF termLen(s) < ACIA_TERM_BUF_SIZE - 1
    THEN [s EXCEPT !.termBuffer = Append(@, ch)]
    ELSE s

\* termPutChar storing a newline for every line feed
termPutCharLfAlways(s, val) ==
  LET c == CharValue(s, val)
      n == termLen(s)
      s1 == IF c = CR THEN
              [TermAppend(s, LF) EXCEPT !.cursorX = 0]
            ELSE IF c = LF THEN
              [TermAppend(s, LF) EXCEPT !.cursorX = 0]
            ELSE IF c = BS \/ c = DEL THEN
              IF n > 0 /\ s.termBuffer[n] # LF
                THEN [s EXCEPT !.termBuffer = SubSeq(@, 1, n - 1),
                               !.cursorX = @ - 1]
                ELSE s
            ELSE IF c >= 32 \/ c = TAB THEN
              IF n < ACIA_TERM_BUF_SIZE - 1
                THEN [TermAppend(s, val) EXCEPT !.cursorX = @ + 1]
                ELSE s
            ELSE s
      s2 == [s1 EXCEPT !.termNul = termLen(s1), !.termScrollToBottom = 1]
      n2 == termLen(s2)
      half == n2 \div 2
  IN IF n2 > ACIA_TERM_BUF_SIZE - 256
       THEN [s2 EXCEPT !.termBuffer = SubSeq(@, half + 1, n2),
                       !.termNul = n2 - half]
       ELSE s2

\* termPutChar with a backspace that also erases a newline
termPutCharErasesNewline(s, val) ==
  LET c == CharValue(s, val)
      n == termLen(s)
      s1 == IF c = CR THEN
              [TermAppend(s, LF) EXCEPT !.cursorX = 0]
            ELSE IF c = LF THEN
              IF n > 0 /\ s.termBuffer[n] = LF THEN s
              ELSE [TermAppend(s, LF) EXCEPT !.cursorX = 0]
            ELSE IF c = BS \/ c = DEL THEN
              IF n > 0
                THEN [s EXCEPT !.termBuffer = SubSeq(@, 1, n - 1),
                               !.cursorX = @ - 1]
                ELSE s
            ELSE IF c >= 32 \/ c = TAB THEN
              IF n < ACIA_TERM_BUF_SIZE - 1
                THEN [TermAppend(s, val) EXCEPT !.cursorX = @ + 1]
                ELSE s
            ELSE s
      s2 == [s1 EXCEPT !.termNul = termLen(s1), !.termScrollToBottom = 1]
      n2 == termLen(s2)
      half == n2 \div 2
  IN IF n2 > ACIA_TERM_BUF_SIZE - 256
       THEN [s2 EXCEPT !.termBuffer = SubSeq(@, half + 1, n2),
                       !.termNul = n2 - half]
       ELSE s2

\* termPutChar discarding the newer half at the margin
termPutCharKeepsOldest(s, val) ==
  LET c == CharValue(s, val)
      n == termLen(s)
      s1 == IF c = CR THEN
              [TermAppend(s, LF) EXCEPT !.cursorX = 0]
            ELSE IF c = LF THEN
              IF n > 0 /\ s.termBuffer[n] = LF THEN s
              ELSE [TermAppend(s, LF) EXCEPT !.cursorX = 0]
            ELSE IF c = BS \/ c = DEL THEN
              IF n > 0 /\ s.termBuffer[n] # LF
                THEN [s EXCEPT !.termBuffer = SubSeq(@, 1, n - 1),
                               !.cursorX = @ - 1]
                ELSE s
            ELSE IF c >= 32 \/ c = TAB THEN
              IF n < ACIA_TERM_BUF_SIZE - 1
                THEN [TermAppend(s, val) EXCEPT !.cursorX = @ + 1]
                ELSE s
            ELSE s
      s2 == [s1 EXCEPT !.termNul = termLen(s1), !.termScrollToBottom = 1]
      n2 == termLen(s2)
      half == n2 \div 2
  IN IF n2 > ACIA_TERM_BUF_SIZE - 256
       THEN [s2 EXCEPT !.termBuffer = SubSeq(@, 1, n2 - half),
                       !.termNul = n2 - half]
       ELSE s2

termPutChar(s, val) ==
  LET c == CharValue(s, val)
      n == termLen(s)
      s1 == IF c = CR THEN
              [TermAppend(s, LF) EXCEPT !.cursorX = 0]
            ELSE IF c = LF THEN
              IF n > 0 /\ s.termBuffer[n] = LF THEN s
              ELSE [TermAppend(s, LF) EXCEPT !.cursorX = 0]
            ELSE IF c = BS \/ c = DEL THEN
              IF n > 0 /\ s.termBuffer[n] # LF
                THEN [s EXCEPT !.termBuffer = SubSeq(@, 1, n - 1),
                               !.cursorX = @ - 1]
                ELSE s
            ELSE IF c >= 32 \/ c = TAB THEN
              IF n < ACIA_TERM_BUF_SIZE - 1
                THEN [TermAppend(s, val) EXCEPT !.cursorX = @ + 1]
                ELSE s
            ELSE s
      s2 == [s1 EXCEPT !.termNul = termLen(s1), !.termScrollToBottom = 1]
      n2 == termLen(s2)
      half == n2 \div 2
  IN IF n2 > ACIA_TERM_BUF_SIZE - 256
       THEN [s2 EXCEPT !.termBuffer = SubSeq(@, half + 1, n2),
                       !.termNul = n2 - half]
       ELSE s2

aciaIrq(s) == HBC56_ACIA_IRQ

updateIrq(s) ==
  IF BitSet(s.statusReg, ACIA_STATUS_RDRF) /\ ~BitSet(s.commandReg, ACIA_CMD_RX_IRQ)
    THEN hbc56Interrupt([s EXCEPT !.statusReg = SetBit(@, ACIA_STATUS_IRQ)],
                        aciaIrq(s), INTERRUPT_RAISE)
    ELSE hbc56Interrupt([s EXCEPT !.statusReg = ClearBit(@, ACIA_STATUS_IRQ)],
                        aciaIrq(s), INTERRUPT_RELEASE)

\* resetAciaDevice clearing the whole status register
resetAciaDeviceZeroStatus(s) ==
  hbc56Interrupt([s EXCEPT !.commandReg = 0, !.controlReg = 0,
                           !.statusReg = 0,
                           !.rxHead = 0, !.rxTail = 0],
                 aciaIrq(s), INTERRUPT_RELEASE)

resetAciaDevice(s) ==
  hbc56Interrupt([s EXCEPT !.commandReg = 0, !.controlReg = 0,
                           !.statusReg = ACIA_STATUS_TDRE,
                           !.rxHead = 0, !.rxTail = 0],
                 aciaIrq(s), INTERRUPT_RELEASE)

\* the range test without its lower bound
AciaClaimsNoLowerTest(addr) == ~(addr > HBC56_ACIA_ADDR + ACIA_CONTROL_REG)

AciaClaims(addr) ==
  ~(addr < HBC56_ACIA_ADDR \/ addr > HBC56_ACIA_ADDR + ACIA_CONTROL_REG)

\* readAciaDevice recomputing the interrupt after the status read cleared the
\* interrupt-pending bit
readAciaDeviceStatusUpdatesIrq(s, addr, val, dbg) ==
  IF ~AciaClaims(addr) THEN [s |-> s, claimed |-> FALSE, val |-> val]
  ELSE
    LET reg == addr - HBC56_ACIA_ADDR IN
    IF reg = ACIA_DATA_REG THEN
      IF rxBufCount(s) > 0 THEN
        LET s1 == rxBufPop(s)
            s2 == IF rxBufCount(s1) = 0
                    THEN [s1 EXCEPT !.statusReg = ClearBit(@, ACIA_STATUS_RDRF)]
                    ELSE s1
            s3 == IF ~dbg THEN updateIrq(s2) ELSE s2
        IN [s |-> s3, claimed |-> TRUE, val |-> RxCell(s, s.rxTail)]
      ELSE [s |-> s, claimed |-> TRUE, val |-> 0]
    ELSE IF reg = ACIA_STATUS_REG THEN
      [s |-> IF ~dbg THEN updateIrq([s EXCEPT !.statusReg = ClearBit(@, ACIA_STATUS_IRQ)]) ELSE s,
       claimed |-> TRUE, val |-> s.statusReg]
    ELSE IF reg = ACIA_COMMAND_REG THEN
      [s |-> s, claimed |-> TRUE, val |-> s.commandReg]
    ELSE
      [s |-> s, claimed |-> TRUE, val |-> s.controlReg]

\* readAciaDevice returning the byte at the head of the receive buffer, the
\* newest one
readAciaDeviceNewest(s, addr, val, dbg) ==
  IF ~AciaClaims(addr) THEN [s |-> s, claimed |-> FALSE, val |-> val]
  ELSE
    LET reg == addr - HBC56_ACIA_ADDR IN
    IF reg = ACIA_DATA_REG THEN
      IF rxBufCount(s) > 0 THEN
        LET s1 == rxBufPop(s)
            s2 == IF rxBufCount(s1) = 0
                    THEN [s1 EXCEPT !.statusReg = ClearBit(@, ACIA_STATUS_RDRF)]
                    ELSE s1
            s3 == IF ~dbg THEN updateIrq(s2) ELSE s2
        IN [s |-> s3, claimed |-> TRUE,
            val |-> RxCell(s, (s.rxHead - 1) % ACIA_RX_BUF_SIZE)]
      ELSE [s |-> s, claimed |-> TRUE, val |-> 0]
    ELSE IF reg = ACIA_STATUS_REG THEN
      [s |-> IF ~dbg THEN [s EXCEPT !.statusReg = ClearBit(@, ACIA_STATUS_IRQ)] ELSE s,
       claimed |-> TRUE, val |-> s.statusReg]
    ELSE IF reg = ACIA_COMMAND_REG THEN
      [s |-> s, claimed |-> TRUE, val |-> s.commandReg]
    ELSE
      [s |-> s, claimed |-> TRUE, val |-> s.controlReg]

\* [s, claimed, val]: val is the caller's *val when the device leaves it alone
\* readAciaDevice clearing RDRF on every data-register read that pops a byte
readAciaDeviceAlwaysClearsRdrf(s, addr, val, dbg) ==
  IF ~AciaClaims(addr) THEN [s |-> s, claimed |-> FALSE, val |-> val]
  ELSE
    LET reg == addr - HBC56_ACIA_ADDR IN
    IF reg = ACIA_DATA_REG THEN
      IF rxBufCount(s) > 0 THEN
        LET s1 == rxBufPop(s)
            s2 == [s1 EXCEPT !.statusReg = ClearBit(@, ACIA_STATUS_RDRF)]
            s3 == IF ~dbg THEN updateIrq(s2) ELSE s2
        IN [s |-> s3, claimed |-> TRUE, val |-> RxCell(s, s.rxTail)]
      ELSE [s |-> s, claimed |-> TRUE, val |-> 0]
    ELSE IF reg = ACIA_STATUS_REG THEN
      [s |-> IF ~dbg THEN [s EXCEPT !.statusReg = ClearBit(@, ACIA_STATUS_IRQ)] ELSE s,
       claimed |-> TRUE, val |-> s.statusReg]
    ELSE IF reg = ACIA_COMMAND_REG THEN
      [s |-> s, claimed |-> TRUE, val |-> s.commandReg]
    ELSE
      [s |-> s, claimed |-> TRUE, val |-> s.controlReg]

readAciaDevice(s, addr, val, dbg) ==
  IF ~AciaClaims(addr) THEN [s |-> s, claimed |-> FALSE, val |-> val]
  ELSE
    LET reg == addr - HBC56_ACIA_ADDR IN
    IF reg = ACIA_DATA_REG THEN
      IF rxBufCount(s) > 0 THEN
        LET s1 == rxBufPop(s)
            s2 == IF rxBufCount(s1) = 0
                    THEN [s1 EXCEPT !.statusReg = ClearBit(@, ACIA_STATUS_RDRF)]
                    ELSE s1
            s3 == IF ~dbg THEN updateIrq(s2) ELSE s2
        IN [s |-> s3, claimed |-> TRUE, val |-> RxCell(s, s.rxTail)]
      ELSE [s |-> s, claimed |-> TRUE, val |-> 0]
    ELSE IF reg = ACIA_STATUS_REG THEN
      [s |-> IF ~dbg THEN [s EXCEPT !.statusReg = ClearBit(@, ACIA_STATUS_IRQ)] ELSE s,
       claimed |-> TRUE, val |-> s.statusReg]
    ELSE IF reg = ACIA_COMMAND_REG THEN
      [s |-> s, claimed |-> TRUE, val |-> s.commandReg]
    ELSE
      [s |-> s, claimed |-> TRUE, val |-> s.controlReg]

\* writeAciaDevice with a programmed reset that clears the whole command
\* register
writeAciaDeviceClearsCommand(s, addr, val) ==
  IF ~AciaClaims(addr) THEN [s |-> s, claimed |-> FALSE]
  ELSE
    LET reg == addr - HBC56_ACIA_ADDR IN
    IF reg = ACIA_DATA_REG THEN
      [s |-> termPutChar(s, val), claimed |-> TRUE]
    ELSE IF reg = ACIA_STATUS_REG THEN
      [s |-> [s EXCEPT !.commandReg = 0,
                       !.statusReg = ClearBit(@, ACIA_STATUS_OVRN)],
       claimed |-> TRUE]
    ELSE IF reg = ACIA_COMMAND_REG THEN
      [s |-> updateIrq([s EXCEPT !.commandReg = val]), claimed |-> TRUE]
    ELSE
      [s |-> [s EXCEPT !.controlReg = val], claimed |-> TRUE]

\* [s, claimed]
writeAciaDevice(s, addr, val) ==
  IF ~AciaClaims(addr) THEN [s |-> s, claimed |-> FALSE]
  ELSE
    LET reg == addr - HBC56_ACIA_ADDR IN
    IF reg = ACIA_DATA_REG THEN
      [s |-> termPutChar(s, val), claimed |-> TRUE]
    ELSE IF reg = ACIA_STATUS_REG THEN
      [s |-> [s EXCEPT !.commandReg = @ - (@ % 32),
                       !.statusReg = ClearBit(@, ACIA_STATUS_OVRN)],
       claimed |-> TRUE]
    ELSE IF reg = ACIA_COMMAND_REG THEN
      [s |-> updateIrq([s EXCEPT !.commandReg = val]), claimed |-> TRUE]
    ELSE
      [s |-> [s EXCEPT !.controlReg = val], claimed |-> TRUE]

tickAciaDevice(s) ==
  IF rxBufCount(s) > 0 /\ ~BitSet(s.statusReg, ACIA_STATUS_RDRF)
    THEN updateIrq([s EXCEPT !.statusReg = SetBit(@, ACIA_STATUS_RDRF)])
    ELSE s

\* aciaDeviceReceiveByte leaving RDRF and the interrupt to the next tick
aciaDeviceReceiveByteDeferred(s, byte) == rxBufPush(s, byte)

aciaDeviceReceiveByte(s, byte) ==
  LET s1 == rxBufPush(s, byte)
  IN IF ~BitSet(s1.statusReg, ACIA_STATUS_RDRF)
       THEN updateIrq([s1 EXCEPT !.statusReg = SetBit(@, ACIA_STATUS_RDRF)])
       ELSE s1

\* aciaGetScrollToBottom leaving the flag set
aciaGetScrollToBottomKeepsFlag(s) == [s |-> s, val |-> s.termScrollToBottom]

\* [s, val]: val is the flag read, s the machine with the flag reset
aciaGetScrollToBottom(s) ==
  [s |-> [s EXCEPT !.termScrollToBottom = 0], val |-> s.termScrollToBottom]

\* aciaDeviceRxBufEmpty with its result inverted
aciaDeviceRxBufEmptyInverted(s) == rxBufCount(s) # 0

aciaDeviceRxBufEmpty(s) == rxBufCount(s) = 0

----------------------------------------------------------------------------
(* Devices of the chain *)

\* the RAM cells the model observes: READ_PTR, WRITE_PTR and the last RAM byte
RamCells == {0, 1, 32767}

\* address window [lo, hi] of the peripherals this model does not look into
PeripheralRange(kind) ==
  CASE kind = "tms9918" -> <<33280, 33281>>
    [] kind = "ay38910" -> <<33536, 33539>>
    [] kind = "via2"    -> <<34816, 34831>>
    [] kind = "via1"    -> <<36864, 36879>>
    [] kind = "keyboard" -> <<36864, 36864>>
    [] OTHER -> <<1, 0>>

PeripheralClaims(kind, addr) ==
  PeripheralRange(kind)[1] <= addr /\ addr <= PeripheralRange(kind)[2]

RamClaims(addr) == HBC56_RAM_START <= addr /\ addr < HBC56_RAM_END
RomClaims(addr) == HBC56_ROM_START <= addr /\ addr < HBC56_ROM_END

readMemoryDevice(s, kind, addr, val) ==
  IF kind = "ram" THEN
    IF RamClaims(addr)
      THEN [s |-> s, claimed |-> TRUE, val |-> IF addr \in RamCells THEN s.ram[addr] ELSE 0]
      ELSE [s |-> s, claimed |-> FALSE, val |-> val]
  ELSE
    IF RomClaims(addr)
      THEN [s |-> s, claimed |-> TRUE, val |-> s.romData]
      ELSE [s |-> s, claimed |-> FALSE, val |-> val]

\* only the RAM device has a write handler
writeMemoryDevice(s, kind, addr, val) ==
  IF kind = "ram" /\ RamClaims(addr)
    THEN [s |-> IF addr \in RamCells THEN [s EXCEPT !.ram[addr] = val] ELSE s,
          claimed |-> TRUE]
    ELSE [s |-> s, claimed |-> FALSE]

\* readDevice(&devices[i], addr, &val, dbg)
readDevice(s, i, addr, val, dbg) ==
  LET kind == s.devices[i + 1]
      r == IF kind = "acia" THEN readAciaDevice(s, addr, val, dbg)
           ELSE IF kind \in {"ram", "rom"} THEN readMemoryDevice(s, kind, addr, val)
           ELSE IF PeripheralClaims(kind, addr) THEN [s |-> s, claimed |-> TRUE, val |-> 0]
           ELSE [s |-> s, claimed |-> FALSE, val |-> val]
  IN [r EXCEPT !.s = Log(@, Call("readDevice", i, IF r.claimed THEN "claimed" ELSE "miss", addr))]

\* writeDevice(&devices[i], addr, val)
writeDevice(s, i, addr, val) ==
  LET kind == s.devices[i + 1]
      r == IF kind = "acia" THEN writeAciaDevice(s, addr, val)
           ELSE IF kind \in {"ram", "rom"} THEN writeMemoryDevice(s, kind, addr, val)
           ELSE IF PeripheralClaims(kind, addr) THEN [s |-> s, claimed |-> TRUE]
           ELSE [s |-> s, claimed |-> FALSE]
  IN [r EXCEPT !.s = Log(@, Call("writeDevice", i, IF r.claimed THEN "claimed" ELSE "miss", addr))]

\* resetDevice(&devices[i])
resetDevice(s, i) ==
  LET s1 == Log(s, Call("resetDevice", i, "", 0))
  IN IF s.devices[i + 1] = "acia" THEN resetAciaDevice(s1) ELSE s1

\* tickDevice(&devices[i], deltaClockTicks, deltaTime)
tickDevice(s, i, deltaClockTicks) ==
  LET s1 == Log(s, Call("tickDevice", i, "", deltaClockTicks))
  IN IF s.devices[i + 1] = "acia" THEN tickAciaDevice(s1) ELSE s1

----------------------------------------------------------------------------
(* Address bus and device chain *)

\* the read loop without its break: every device of the chain is probed
RECURSIVE MemReadLoopNoBreak(_, _, _, _, _)
MemReadLoopNoBreak(s, i, addr, val, dbg) ==
  IF i >= deviceCount(s) THEN [s |-> s, val |-> val]
  ELSE LET r == readDevice(s, i, addr, val, dbg)
       IN MemReadLoopNoBreak(r.s, i + 1, addr, r.val, dbg)

RECURSIVE MemReadLoop(_, _, _, _, _)
MemReadLoop(s, i, addr, val, dbg) ==
  IF i >= deviceCount(s) THEN [s |-> s, val |-> val]
  ELSE LET r == readDevice(s, i, addr, val, dbg)
       IN IF r.claimed THEN [s |-> r.s, val |-> r.val]
          ELSE MemReadLoop(r.s, i + 1, addr, r.val, dbg)

\* the end of hbc56MemRead: the mutex is unlocked and val returned
MemReadUnlock(r) == [s |-> SDL_UnlockMutex(r.s), val |-> r.val]

\* hbc56MemRead with val initialised to 0xFF
hbc56MemReadIdleHigh(s, addr, dbg) ==
  MemReadUnlock(MemReadLoop(SDL_LockMutex(s), 0, addr, 255, dbg))

\* [s, val]
hbc56MemRead(s, addr, dbg) ==
  MemReadUnlock(MemReadLoop(SDL_LockMutex(s), 0, addr, 0, dbg))

RECURSIVE MemWriteLoop(_, _, _, _)
MemWriteLoop(s, i, addr, val) ==
  IF i >= deviceCount(s) THEN s
  ELSE LET r == writeDevice(s, i, addr, val)
       IN IF r.claimed THEN r.s ELSE MemWriteLoop(r.s, i + 1, addr, val)

hbc56MemWrite(s, addr, val) == MemWriteLoop(s, 0, addr, val)

\* hbc56AddDevice storing the device without the test of the device count
hbc56AddDeviceUnchecked(s, kind) ==
  [s |-> [s EXCEPT !.devices = Append(@, kind)], ret |-> deviceCount(s)]

\* [s, ret]: ret is the index of the new chain entry, or NoDevice for NULL
hbc56AddDevice(s, kind) ==
  IF deviceCount(s) < HBC56_MAX_DEVICES - 1
    THEN [s |-> [s EXCEPT !.devices = Append(@, kind)], ret |-> deviceCount(s)]
    ELSE [s |-> s, ret |-> NoDevice]

RECURSIVE ResetLoop(_, _)
ResetLoop(s, i) ==
  IF i >= deviceCount(s) THEN s ELSE ResetLoop(resetDevice(s, i), i + 1)

\* hbc56Reset without the loop that releases the interrupt sources
hbc56ResetKeepsIrqs(s) == debug6502State(ResetLoop(s, 0), CPU_RUNNING)

hbc56Reset(s) ==
  LET s1 == ResetLoop(s, 0)
      s2 == [s1 EXCEPT !.irqs = [i \in 0 .. MAX_IRQS - 1 |-> INTERRUPT_RELEASE]]
  IN debug6502State(s2, CPU_RUNNING)

\* hbc56LoadRom adding a ROM device on every load
hbc56LoadRomAlwaysAdds(s, data, romDataSize) ==
  IF romDataSize # HBC56_ROM_SIZE
    THEN [s |-> Log(s, Call("SDL_ShowSimpleMessageBox", NoDevice, "error", 0)),
          status |-> 0]
    ELSE
      LET s1 == debug6502State(s, CPU_BREAK)
          a == hbc56AddDevice(s1, "rom")
          s2 == [a.s EXCEPT !.romDevice = IF s1.romDevice = NoDevice THEN a.ret ELSE @,
                            !.romData = data]
      IN [s |-> hbc56Reset([s2 EXCEPT !.programLoaded = TRUE]), status |-> 1]

\* hbc56LoadRom leaving the CPU running while the ROM is replaced
hbc56LoadRomNoBreak(s, data, romDataSize) ==
  IF romDataSize # HBC56_ROM_SIZE
    THEN [s |-> Log(s, Call("SDL_ShowSimpleMessageBox", NoDevice, "error", 0)),
          status |-> 0]
    ELSE
      LET s1 == s
          a == hbc56AddDevice(Log(s1, Call("createRomDevice", NoDevice, "", 0)), "rom")
          s2 == IF s1.romDevice = NoDevice
                  THEN [a.s EXCEPT !.romDevice = a.ret,
                                   !.romData = IF a.ret # NoDevice THEN data ELSE @]
                  ELSE [Log(s1, Call("setMemoryDeviceContents", s1.romDevice, "",
                                     romDataSize))
                          EXCEPT !.romData = data]
      IN [s |-> hbc56Reset([s2 EXCEPT !.programLoaded = TRUE]), status |-> 1]

\* [s, status]
hbc56LoadRom(s, data, romDataSize) ==
  IF romDataSize # HBC56_ROM_SIZE
    THEN [s |-> Log(s, Call("SDL_ShowSimpleMessageBox", NoDevice, "error", 0)),
          status |-> 0]
    ELSE
      LET s1 == debug6502State(s, CPU_BREAK)
          a == hbc56AddDevice(Log(s1, Call("createRomDevice", NoDevice, "", 0)), "rom")
          s2 == IF s1.romDevice = NoDevice
                  THEN [a.s EXCEPT !.romDevice = a.ret,
                                   !.romData = IF a.ret # NoDevice THEN data ELSE @]
                  ELSE [Log(s1, Call("setMemoryDeviceContents", s1.romDevice, "",
                                     romDataSize))
                          EXCEPT !.romData = data]
      IN [s |-> hbc56Reset([s2 EXCEPT !.programLoaded = TRUE]), status |-> 1]

\* [s, romLoaded]: fread reads at most sizeof(rom) bytes of the file
loadRom(s, fileExists, fileSize, data) ==
  IF fileExists
    THEN LET romBytesRead == IF fileSize < HBC56_ROM_SIZE THEN fileSize ELSE HBC56_ROM_SIZE
             r == hbc56LoadRom(s, data, romBytesRead)
         IN [s |-> r.s, romLoaded |-> r.status]
    ELSE [s |-> s, romLoaded |-> 0]

----------------------------------------------------------------------------
(* Paste *)

\* the paste loop without the line-feed conversion
PasteByteUnconverted(c) == c

PasteByte(c) == IF c = LF THEN CR ELSE c

\* the loop over the characters of text: each is converted and pushed
hbc56PasteText(s, text) ==
  LET s1 == QueueAccess(SDL_LockMutex(s), "pasteQueue", "push")
      s2 == IF s1.aciaDevice # NoDevice /\ text # <<>>
              THEN QueueAccess(
                     [s1 EXCEPT !.aciaPasteQueue =
                                  @ \o [i \in 1 .. Len(text) |-> PasteByte(text[i])]],
                     "aciaPasteQueue", "push")
              ELSE s1
  IN SDL_UnlockMutex(s2)

\* the paste attempt with bufUsed computed as an int, without the wrap to uint8_t
PasteAttemptIntDifference(s) ==
  IF s.aciaDevice # NoDevice /\ s.aciaPasteQueue # <<>> /\ rxBufCount(s) = 0
    THEN LET w == hbc56MemRead(s, WRITE_PTR, TRUE)
             r == hbc56MemRead(w.s, READ_PTR, TRUE)
             bufUsed == w.val - r.val
         IN IF bufUsed < PASTE_THRESHOLD
              THEN [s |-> QueueAccess(
                            [aciaDeviceReceiveByte(r.s, Head(r.s.aciaPasteQueue))
                               EXCEPT !.aciaPasteQueue = Tail(@)],
                            "aciaPasteQueue", "pop"),
                    sent |-> <<Head(r.s.aciaPasteQueue)>>]
              ELSE [s |-> r.s, sent |-> <<>>]
    ELSE [s |-> s, sent |-> <<>>]

\* the paste attempt with the threshold test bufUsed <= 192
PasteAttemptOffByOne(s) ==
  IF s.aciaDevice # NoDevice /\ s.aciaPasteQueue # <<>> /\ rxBufCount(s) = 0
    THEN LET w == hbc56MemRead(s, WRITE_PTR, TRUE)
             r == hbc56MemRead(w.s, READ_PTR, TRUE)
             bufUsed == Byte(w.val - r.val)
         IN IF bufUsed <= PASTE_THRESHOLD
              THEN [s |-> QueueAccess(
                            [aciaDeviceReceiveByte(r.s, Head(r.s.aciaPasteQueue))
                               EXCEPT !.aciaPasteQueue = Tail(@)],
                            "aciaPasteQueue", "pop"),
                    sent |-> <<Head(r.s.aciaPasteQueue)>>]
              ELSE [s |-> r.s, sent |-> <<>>]
    ELSE [s |-> s, sent |-> <<>>]

\* the paste attempt of one batch of doTick: [s, sent], sent the bytes handed
\* to the ACIA
PasteAttempt(s) ==
  IF s.aciaDevice # NoDevice /\ s.aciaPasteQueue # <<>> /\ aciaDeviceRxBufEmpty(s)
    THEN LET w == hbc56MemRead(s, WRITE_PTR, TRUE)
             r == hbc56MemRead(w.s, READ_PTR, TRUE)
             bufUsed == Byte(w.val - r.val)
         IN IF bufUsed < PASTE_THRESHOLD
              THEN [s |-> QueueAccess(
                            [aciaDeviceReceiveByte(r.s, Head(r.s.aciaPasteQueue))
                               EXCEPT !.aciaPasteQueue = Tail(@)],
                            "aciaPasteQueue", "pop"),
                    sent |-> <<Head(r.s.aciaPasteQueue)>>]
              ELSE [s |-> r.s, sent |-> <<>>]
    ELSE [s |-> s, sent |-> <<>>]

RECURSIVE TickLoop(_, _, _)
TickLoop(s, i, deltaClockTicks) ==
  IF i >= deviceCount(s) THEN s
  ELSE TickLoop(tickDevice(s, i, deltaClockTicks), i + 1, deltaClockTicks)

----------------------------------------------------------------------------
(* Catch-up tick driver *)

NoTime == -1

\* deltaTime, in microseconds, and the cap on elapsed
BatchMicros == 100
MaxElapsedMicros == 50000

deltaClockTicks == (HBC56_CLOCK_FREQ * BatchMicros) \div 1000000

\* the batch count without the floor of one batch
BatchCountNoFloor(elapsed) ==
  LET capped == IF elapsed > MaxElapsedMicros THEN MaxElapsedMicros ELSE elapsed
  IN capped \div BatchMicros

\* the batch count without the cap on elapsed
BatchCountUncapped(elapsed) ==
  LET n == elapsed \div BatchMicros
  IN IF n < 1 THEN 1 ELSE n

\* the batch count with elapsed capped at 100 ms
BatchCountCap100(elapsed) ==
  LET capped == IF elapsed > 2 * MaxElapsedMicros THEN 2 * MaxElapsedMicros ELSE elapsed
      n == capped \div BatchMicros
  IN IF n < 1 THEN 1 ELSE n

\* batches of one doTick invocation with elapsed > 0
BatchCount(elapsed) ==
  LET capped == IF elapsed > MaxElapsedMicros THEN MaxElapsedMicros ELSE elapsed
      n == capped \div BatchMicros
  IN IF n < 1 THEN 1 ELSE n

Op(op, addr, val, sig, ret) ==
  [op |-> op, addr |-> addr, val |-> val, sig |-> sig, ret |-> ret]

\* Times are microseconds from an origin that the model moves to currentTime
\* whenever doTick has written lastTime (doTick reads only the difference
\* currentTime - lastTime), so that lastTime does not grow without bound.
Rebase(t, origin) == t - origin

\* doTick returning early only when elapsed is negative
DoTickRunsAtZero(t0, later) ==
  /\ pc = "idle"
  /\ programLoaded
  /\ LET lt == IF lastTime = NoTime THEN t0 ELSE lastTime
         now == lt + later
         elapsed == now - lt
     IN /\ lastTime' = lt
        /\ IF elapsed < 0
             THEN /\ pc' = "idle"
                  /\ UNCHANGED <<batches, b, currentTime>>
                  /\ last' = Op("doTick", later, 0, "return", 0)
             ELSE /\ pc' = "paste"
                  /\ batches' = BatchCount(elapsed)
                  /\ b' = 0
                  /\ currentTime' = now
                  /\ last' = Op("doTick", later, BatchCount(elapsed), "run", 0)
  /\ calls' = <<>>
  /\ UNCHANGED <<devices, cpuDevice, romDevice, aciaDevice, ram, romData,
                 commandReg, controlReg, statusReg, rxBuffer, rxHead, rxTail,
                 termBuffer, termNul, termScrollToBottom, cursorX, irqs, cpuInt,
                 cpuState,
                 programLoaded, aciaPasteQueue, kbQueueMutex, pasted, delivered,
                 charSigned>>

\* doTick up to its loop: t0 is the counter read by the initializer of the
\* static lastTime on the first call, and currentTime is read `later` after
\* the time lastTime holds
DoTick(t0, later) ==
  /\ pc = "idle"
  /\ programLoaded
  /\ LET lt == IF lastTime = NoTime THEN t0 ELSE lastTime
         now == lt + later
         elapsed == now - lt
     IN /\ lastTime' = lt
        /\ IF elapsed <= 0
             THEN /\ pc' = "idle"
                  /\ UNCHANGED <<batches, b, currentTime>>
                  /\ last' = Op("doTick", later, 0, "return", 0)
             ELSE /\ pc' = "paste"
                  /\ batches' = BatchCount(elapsed)
                  /\ b' = 0
                  /\ currentTime' = now
                  /\ last' = Op("doTick", later, BatchCount(elapsed), "run", 0)
  /\ calls' = <<>>
  /\ UNCHANGED <<devices, cpuDevice, romDevice, aciaDevice, ram, romData,
                 commandReg, controlReg, statusReg, rxBuffer, rxHead, rxTail,
                 termBuffer, termNul, termScrollToBottom, cursorX, irqs, cpuInt,
                 cpuState,
                 programLoaded, aciaPasteQueue, kbQueueMutex, pasted, delivered,
                 charSigned>>

\* the batch ticking the CPU device before the paste attempt
BatchPasteTickFirst ==
  /\ pc = "paste"
  /\ LET r == PasteAttempt(tickDevice(M, 0, deltaClockTicks))
     IN /\ Commit(r.s)
        /\ delivered' = delivered \o r.sent
        /\ last' = Op("paste", 0, Len(r.sent), "", 0)
  /\ pc' = "cputick"
  /\ UNCHANGED <<batches, b, lastTime, currentTime, pasted, charSigned>>

\* one batch of doTick up to the tick of the CPU device: the paste attempt,
\* then tickDevice(&devices[0]) is entered
BatchPaste ==
  /\ pc = "paste"
  /\ LET r == PasteAttempt(M)
     IN /\ Commit(tickDevice(r.s, 0, deltaClockTicks))
        /\ delivered' = delivered \o r.sent
        /\ last' = Op("paste", 0, Len(r.sent), "", 0)
  /\ pc' = "cputick"
  /\ UNCHANGED <<batches, b, lastTime, currentTime, pasted, charSigned>>

\* the rest of the batch: the CPU's tick returns, the devices after it are
\* ticked, and after the last batch lastTime is written
BatchTick ==
  /\ pc = "cputick"
  /\ Commit(TickLoop(M, 1, deltaClockTicks))
  /\ b' = b + 1
  /\ IF b + 1 < batches
       THEN /\ pc' = "paste"
            /\ UNCHANGED <<lastTime, currentTime>>
            /\ last' = Op("tick", b, 0, "", 0)
       ELSE /\ pc' = "idle"
            /\ lastTime' = Rebase(currentTime, currentTime)
            /\ currentTime' = Rebase(currentTime, currentTime)
            /\ last' = Op("tick", b, 0, "lastTime", Rebase(currentTime, lastTime))
  /\ UNCHANGED <<batches, pasted, delivered, charSigned>>

----------------------------------------------------------------------------
(* Operations of the main thread between doTick invocations *)

HostFrame == UNCHANGED <<pc, batches, b, lastTime, currentTime, charSigned>>

\* main: loadRom(romFile), then hbc56Reset
Startup(fileExists, fileSize, data) ==
  /\ pc = "startup"
  /\ LET r == loadRom(M, fileExists, fileSize, data)
     IN /\ Commit(hbc56Reset(r.s))
        /\ last' = Op("startup", fileSize, data, "", r.romLoaded)
  /\ pc' = "idle"
  /\ UNCHANGED <<batches, b, lastTime, currentTime, pasted, delivered, charSigned>>

\* main's device setup registers one more device
AddDevice(kind) ==
  /\ pc = "startup"
  /\ LET a == hbc56AddDevice(M, kind)
     IN /\ Commit(a.s)
        /\ last' = Op("add", 0, 0, kind, a.ret)
  /\ HostFrame
  /\ UNCHANGED <<pasted, delivered>>

\* the Reset menu item and Ctrl+R
Reset ==
  /\ pc = "idle"
  /\ Commit(hbc56Reset(M))
  /\ last' = Op("reset", 0, 0, "", 0)
  /\ HostFrame
  /\ UNCHANGED <<pasted, delivered>>

\* the file dialog and a dropped file: loadRom, then hbc56Reset
LoadFile(fileExists, fileSize, data) ==
  /\ pc = "idle"
  /\ LET r == loadRom(M, fileExists, fileSize, data)
     IN /\ Commit(hbc56Reset(r.s))
        /\ last' = Op("load", fileSize, data, IF fileExists THEN "file" ELSE "nofile",
                      r.romLoaded)
  /\ HostFrame
  /\ UNCHANGED <<pasted, delivered>>

\* Ctrl+V
PasteText(text) ==
  /\ pc = "idle"
  /\ Commit(hbc56PasteText(M, text))
  /\ pasted' = pasted \o text
  /\ last' = Op("pasteText", 0, Len(text), "", 0)
  /\ HostFrame
  /\ UNCHANGED delivered

\* a key typed into the focused terminal window
TerminalKey(byte) ==
  /\ pc = "idle"
  /\ aciaDevice # NoDevice
  /\ Commit(aciaDeviceReceiveByte(M, byte))
  /\ last' = Op("receive", 0, byte, "", 0)
  /\ HostFrame
  /\ UNCHANGED <<pasted, delivered>>

\* the terminal window draws the stored output and consumes the scroll flag
TerminalRender ==
  /\ pc = "idle"
  /\ aciaDevice # NoDevice
  /\ LET r == aciaGetScrollToBottom(M)
     IN /\ Commit(r.s)
        /\ last' = Op("scroll", 0, 0, "", r.val)
  /\ HostFrame
  /\ UNCHANGED <<pasted, delivered>>

\* hbc56MemRead(addr, true), as the debugger's memory views issue it
DebugRead(addr) ==
  /\ pc = "idle"
  /\ LET r == hbc56MemRead(M, addr, TRUE)
     IN /\ Commit(r.s)
        /\ last' = Op("dbgread", addr, 0, "", r.val)
  /\ HostFrame
  /\ UNCHANGED <<pasted, delivered>>

----------------------------------------------------------------------------
(* What runs inside the device ticks of a batch *)

CpuFrame == UNCHANGED <<pc, batches, b, lastTime, currentTime, pasted, delivered, charSigned>>

\* the CPU executes a load from addr
CpuRead(addr) ==
  /\ pc = "cputick"
  /\ cpuState = CPU_RUNNING
  /\ LET r == hbc56MemRead(M, addr, FALSE)
     IN /\ Commit(r.s)
        /\ last' = Op("read", addr, 0, "", r.val)
  /\ CpuFrame

\* the CPU executes a store to addr
CpuWrite(addr, val) ==
  /\ pc = "cputick"
  /\ cpuState = CPU_RUNNING
  /\ Commit(hbc56MemWrite(M, addr, val))
  /\ last' = Op("write", addr, val, "", 0)
  /\ CpuFrame

\* a device or another caller signals an interrupt source
Interrupt(irq, signal) ==
  /\ pc = "cputick"
  /\ Commit(hbc56Interrupt(M, irq, signal))
  /\ last' = Op("interrupt", irq, 0, signal, 0)
  /\ CpuFrame

\* the BIOS interrupt handler: read the ACIA status and data registers, store
\* the byte in INPUT_BUFFER and advance WRITE_PTR
FirmwareIrq ==
  /\ pc = "cputick"
  /\ cpuState = CPU_RUNNING
  /\ cpuInt = INTERRUPT_RAISE
  /\ LET r1 == hbc56MemRead(M, HBC56_ACIA_ADDR + ACIA_STATUS_REG, FALSE)
         r2 == hbc56MemRead(r1.s, HBC56_ACIA_ADDR + ACIA_DATA_REG, FALSE)
         r3 == hbc56MemRead(r2.s, WRITE_PTR, FALSE)
     IN /\ Commit(hbc56MemWrite(r3.s, WRITE_PTR, Byte(r3.val + 1)))
        /\ last' = Op("irq", 0, r2.val, "", 0)
  /\ CpuFrame

\* the BIOS CHRIN routine taking one byte out of INPUT_BUFFER: advance READ_PTR
Consumer ==
  /\ pc = "cputick"
  /\ cpuState = CPU_RUNNING
  /\ LET r1 == hbc56MemRead(M, READ_PTR, FALSE)
         r2 == hbc56MemRead(r1.s, WRITE_PTR, FALSE)
     IN /\ r1.val # r2.val
        /\ Commit(hbc56MemWrite(r2.s, READ_PTR, Byte(r1.val + 1)))
        /\ last' = Op("chrin", 0, 0, "", 0)
  /\ CpuFrame

----------------------------------------------------------------------------
(* Initial state: main after the device setup, before the ROM is loaded *)

InitMachine ==
  /\ devices = <<"cpu", "ram", "tms9918", "ay38910", "acia", "via2", "via1", "keyboard">>
  /\ cpuDevice = 0
  /\ romDevice = NoDevice
  /\ aciaDevice = 4
  /\ romData = 0
  /\ commandReg = 0
  /\ controlReg = 0
  /\ statusReg = ACIA_STATUS_TDRE
  /\ rxBuffer = [i \in {} |-> 0]
  /\ rxHead = 0
  /\ rxTail = 0
  /\ termBuffer = <<>>
  /\ termNul = 0
  /\ termScrollToBottom = 0
  /\ cursorX = 0
  /\ irqs = [i \in 0 .. MAX_IRQS - 1 |-> INTERRUPT_RELEASE]
  /\ cpuInt = INTERRUPT_RELEASE
  /\ cpuState = CPU_RUNNING
  /\ programLoaded = FALSE
  /\ aciaPasteQueue = <<>>
  /\ kbQueueMutex = 0
  /\ calls = <<>>
  /\ pc = "startup"
  /\ batches = 0
  /\ b = 0
  /\ lastTime = NoTime
  /\ currentTime = 0
  /\ last = Op("main", 0, 0, "", 0)
  /\ pasted = <<>>
  /\ delivered = <<>>

Init ==
  /\ InitMachine
  /\ ram \in [RamCells -> {0}]
  /\ charSigned \in BOOLEAN

----------------------------------------------------------------------------
(* Specification of the bus and the device chain: startup, firmware loads,  *)
(* resets, keys typed into the terminal, debugger reads, and the CPU's bus   *)
(* accesses inside the batches of doTick                                     *)

\* bounds of the model: stored terminal output, and receive-buffer head index
MaxTerm == 1
MaxRx == 1

KeyInputs == {65}
ReadInputs == {1, 32768, 33791, 33792, 33793, 33794, 33795, 33796, 65535}
WriteInputs == {<<1, 200>>, <<32768, 7>>, <<33792, 65>>, <<33792, CR>>, <<33793, 0>>,
                <<33794, 2>>, <<33794, 0>>, <<33795, 31>>, <<33796, 7>>}
ImageInputs == {234, 76}
FileSizeInputs == {32767, 32768, 32769}
ElapsedInputs == {0, 50, 250}

WriteAllowed(w) ==
  w[1] = HBC56_ACIA_ADDR + ACIA_DATA_REG => Len(termBuffer) < MaxTerm

DoStartup == \E e \in BOOLEAN, n \in FileSizeInputs, d \in ImageInputs : Startup(e, n, d)
DoLoadFile == \E e \in BOOLEAN, n \in FileSizeInputs, d \in ImageInputs : LoadFile(e, n, d)
DoTerminalKey == \E c \in KeyInputs : rxHead < MaxRx /\ TerminalKey(c)
DoDebugRead == \E a \in ReadInputs : DebugRead(a)
DoDoTick == \E later \in ElapsedInputs : DoTick(0, later)
OneBatchDoTick == DoTick(0, BatchMicros)
DoCpuRead == \E a \in ReadInputs : CpuRead(a)
DoCpuWrite == \E w \in WriteInputs : WriteAllowed(w) /\ CpuWrite(w[1], w[2])

Next ==
  \/ DoStartup
  \/ Reset
  \/ DoLoadFile
  \/ DoTerminalKey
  \/ DoDebugRead
  \/ OneBatchDoTick
  \/ BatchPaste
  \/ BatchTick
  \/ DoCpuRead
  \/ DoCpuWrite

Spec == Init /\ [][Next]_vars

----------------------------------------------------------------------------
(* Bus arbitration *)

BusOps == {"read", "dbgread", "write"}
Probes(c) == SelectSeq(c, LAMBDA x : x.fn \in {"readDevice", "writeDevice"})

\* the value device kind k holds at addr in the current state
DeviceValue(kind, addr) ==
  IF kind = "ram" THEN ram[addr]
  ELSE IF kind = "rom" THEN romData
  ELSE LET reg == addr - HBC56_ACIA_ADDR
       IN IF reg = ACIA_DATA_REG
            THEN (IF rxHead # rxTail THEN RxCell(M, rxTail) ELSE 0)
          ELSE IF reg = ACIA_STATUS_REG THEN statusReg
          ELSE IF reg = ACIA_COMMAND_REG THEN commandReg
          ELSE controlReg

aciaVars == <<commandReg, controlReg, statusReg, rxBuffer, rxHead, rxTail,
              termBuffer, termNul, termScrollToBottom, cursorX>>

\* C1: every bus read and write probes the devices in chain order from index
\* 0 and stops at the first device that claims the address; a read returns
\* that device's value, a write changes that device only, and no device at a
\* higher index is invoked, even when its address range contains the address
C1_FirstClaimantWins ==
  [][last'.op \in BusOps =>
       LET p == Probes(calls')
           n == Len(p)
           kind == devices[p[n].dev + 1]
       IN /\ n >= 1
          /\ \A j \in 1 .. n : p[j].dev = j - 1 /\ p[j].n = last'.addr
          /\ \A j \in 1 .. n - 1 : p[j].sig = "miss"
          /\ p[n].sig = "miss" => n = Len(devices)
          /\ devices' = devices
          /\ (p[n].sig = "claimed" /\ last'.op # "write")
               => last'.ret = DeviceValue(kind, last'.addr)
          /\ (p[n].sig = "claimed" /\ last'.op = "write" /\ kind = "ram")
               => /\ ram' = [ram EXCEPT ![last'.addr] = last'.val]
                  /\ UNCHANGED <<aciaVars, romData>>
          /\ (p[n].sig = "claimed" /\ kind = "acia")
               => UNCHANGED <<ram, romData>>
          /\ (AciaClaims(last'.addr) /\ romDevice # NoDevice)
               => /\ RomClaims(last'.addr)
                  /\ p[n].dev = aciaDevice
                  /\ \A j \in 1 .. n : p[j].dev # romDevice
  ]_vars

\* a CPU read of the ACIA data register, claimed by the ACIA at index 4 while a
\* ROM whose window contains the address sits at index 8
C1_Witness ==
  /\ last.op = "read"
  /\ last.addr = HBC56_ACIA_ADDR
  /\ romDevice = 8
  /\ Len(Probes(calls)) = 5
  /\ Probes(calls)[5].sig = "claimed"

\* C2: the ROM device, when it exists, is the last device of the chain and
\* the only ROM in it, whatever loads and resets happened; and every bus
\* access to an ACIA register is claimed by the ACIA and never reaches the ROM
C2_RomLast ==
  /\ romDevice # NoDevice =>
       /\ romDevice = Len(devices) - 1
       /\ \A i \in 1 .. Len(devices) : devices[i] = "rom" <=> i = romDevice + 1
  /\ romDevice = NoDevice => \A i \in 1 .. Len(devices) : devices[i] # "rom"
  /\ (last.op \in BusOps /\ AciaClaims(last.addr)) =>
       LET p == Probes(calls)
       IN /\ p # <<>>
          /\ p[Len(p)].dev = aciaDevice
          /\ p[Len(p)].sig = "claimed"
          /\ \A j \in 1 .. Len(p) : devices[p[j].dev + 1] # "rom"

\* a write to the ACIA command register with the ROM in place, after a second
\* load replaced the first image
C2_Witness ==
  /\ romDevice # NoDevice
  /\ romData = 76
  /\ last.op = "write"
  /\ last.addr = HBC56_ACIA_ADDR + ACIA_COMMAND_REG
  /\ commandReg = 2

----------------------------------------------------------------------------
(* Specification of the ACIA alone: the CPU reads and writes its registers,  *)
(* keys arrive from the terminal, the machine is reset                       *)

AciaReadInputs == {33792, 33793, 33794, 33795}
AciaWriteInputs == {<<33792, 65>>, <<33792, CR>>, <<33793, 0>>, <<33794, 2>>,
                    <<33794, 0>>, <<33794, 31>>, <<33795, 31>>}
AciaKeyInputs == {65, CR}

AciaStartup == \E d \in ImageInputs : Startup(TRUE, HBC56_ROM_SIZE, d)
AciaTerminalKey == \E c \in AciaKeyInputs : rxHead < MaxRx /\ TerminalKey(c)
AciaCpuRead == \E a \in AciaReadInputs : CpuRead(a)
AciaCpuWrite == \E w \in AciaWriteInputs : WriteAllowed(w) /\ CpuWrite(w[1], w[2])

NextAcia ==
  \/ AciaStartup
  \/ Reset
  \/ AciaTerminalKey
  \/ OneBatchDoTick
  \/ BatchPaste
  \/ BatchTick
  \/ AciaCpuRead
  \/ AciaCpuWrite

SpecAcia == Init /\ [][NextAcia]_vars

RDRF == BitSet(statusReg, ACIA_STATUS_RDRF)
RxIrqDisabled == BitSet(commandReg, ACIA_CMD_RX_IRQ)
AciaSource == irqs[HBC56_ACIA_IRQ - 1]

\* C8: after every ACIA register write and after every change of the receive
\* buffer's occupancy (a byte received, a byte read from the data register),
\* the ACIA's interrupt source is raised exactly when RDRF is set and the
\* receive-interrupt-disable bit of the command register is clear
C8_IrqFollowsRdrf ==
  [][(\/ last'.op = "write" /\ AciaClaims(last'.addr)
      \/ last'.op = "receive"
      \/ last'.op = "read" /\ last'.addr = HBC56_ACIA_ADDR /\ rxTail' # rxTail)
     => (AciaSource' = INTERRUPT_RAISE <=> (RDRF' /\ ~RxIrqDisabled'))
  ]_vars

----------------------------------------------------------------------------
(* Specification of the interrupt aggregator: devices and other callers      *)
(* signal any source, beside the ACIA signalling its own                     *)

IrqInputs == {0, 1, 2, 5, 6}
SignalInputs == {INTERRUPT_RAISE, INTERRUPT_RELEASE, INTERRUPT_TRIGGER}
IrqWriteInputs == {<<33794, 2>>, <<33794, 0>>}

DoInterrupt == \E i \in IrqInputs, g \in SignalInputs : Interrupt(i, g)
IrqCpuRead == CpuRead(HBC56_ACIA_ADDR + ACIA_DATA_REG)
IrqCpuWrite == \E w \in IrqWriteInputs : CpuWrite(w[1], w[2])

NextIrq ==
  \/ AciaStartup
  \/ Reset
  \/ AciaTerminalKey
  \/ OneBatchDoTick
  \/ BatchPaste
  \/ BatchTick
  \/ IrqCpuRead
  \/ IrqCpuWrite
  \/ DoInterrupt

SpecIrq == Init /\ [][NextIrq]_vars

ValidSource(irq) == 1 <= irq /\ irq <= MAX_IRQS
SomeSourceRaised == \E i \in 0 .. MAX_IRQS - 1 : irqs[i] = INTERRUPT_RAISE
Delivered(c) == SelectSeq(c, LAMBDA x : x.fn = "interrupt6502")

\* C9: after every hbc56Interrupt call with RAISE or RELEASE on a valid source,
\* the aggregate handed to the CPU by that call is raised exactly when at least
\* one source level is raised
C9_AggregateIsOr ==
  [][(/\ last'.op = "interrupt"
      /\ ValidSource(last'.addr)
      /\ last'.sig \in {INTERRUPT_RAISE, INTERRUPT_RELEASE}
      /\ cpuDevice # NoDevice)
     => /\ Len(Delivered(calls')) = 1
        /\ Delivered(calls')[1].sig = cpuInt'
        /\ cpuInt' = INTERRUPT_RAISE <=> SomeSourceRaised'
        /\ irqs'[last'.addr - 1] = last'.sig
        /\ \A i \in 0 .. MAX_IRQS - 1 : i # last'.addr - 1 => irqs'[i] = irqs[i]
  ]_vars

\* source 1 was released while source 5 stays raised: the aggregate handed to
\* the CPU is still raised
C9_Witness ==
  /\ last.op = "interrupt"
  /\ last.addr = 1
  /\ last.sig = INTERRUPT_RELEASE
  /\ irqs[0] = INTERRUPT_RELEASE
  /\ irqs[4] = INTERRUPT_RAISE
  /\ irqs[1] = INTERRUPT_RELEASE
  /\ cpuInt = INTERRUPT_RAISE

\* C10: hbc56Interrupt with source 0 or a source above MAX_IRQS changes no
\* source level and hands nothing to the CPU, whatever the signal
C10_InvalidSourceIgnored ==
  [][(last'.op = "interrupt" /\ ~ValidSource(last'.addr))
     => /\ irqs' = irqs
        /\ cpuInt' = cpuInt
        /\ Delivered(calls') = <<>>
        /\ UNCHANGED <<aciaVars, ram, romData, devices, cpuState>>
  ]_vars

\* a RAISE on source 0 and on source MAX_IRQS + 1 with every level released and
\* the CPU's line released
C10_Witness ==
  /\ last.op = "interrupt"
  /\ last.addr \in {0, MAX_IRQS + 1}
  /\ last.sig = INTERRUPT_RAISE
  /\ ~SomeSourceRaised
  /\ cpuInt = INTERRUPT_RELEASE

----------------------------------------------------------------------------
(* Specification of the paste path: texts are pasted, doTick runs its        *)
(* batches, the BIOS interrupt handler takes the received bytes, the CPU     *)
(* stores to the two cursors of the BIOS input buffer, the machine is reset  *)

\* bound of the model: bytes passed to hbc56PasteText in one behaviour
MaxPasted == 3

TextInputs == {<<65, LF>>, <<200>>, <<CR, 66>>}
PtrInputs == {0, 56, 65}

PasteStartup == Startup(TRUE, HBC56_ROM_SIZE, 234)
PastePasteText ==
  \E text \in TextInputs : Len(pasted) + Len(text) <= MaxPasted /\ PasteText(text)
PastePtrWrite == \E a \in {READ_PTR, WRITE_PTR}, v \in PtrInputs : CpuWrite(a, v)

NextPaste ==
  \/ PasteStartup
  \/ Reset
  \/ PastePasteText
  \/ DoDoTick
  \/ BatchPaste
  \/ BatchTick
  \/ FirmwareIrq
  \/ PastePtrWrite

SpecPaste == Init /\ [][NextPaste]_vars

\* (byte at 0x0001 - byte at 0x0000) mod 256
Occupancy == (ram[WRITE_PTR] - ram[READ_PTR]) % 256
RxEmpty == rxHead = rxTail
RxReceived == (rxHead' - rxHead) % ACIA_RX_BUF_SIZE

\* C3: the paste attempt of a batch hands at most one byte to the ACIA, and
\* hands one only if the paste queue is non-empty, the receive buffer is empty
\* and the occupancy (byte at 0x0001 - byte at 0x0000) mod 256 is below 192;
\* with an occupancy of 192..255 nothing is delivered and the paste queue is
\* unchanged, also when the write cursor is numerically below the read cursor
C3_ThrottledDelivery ==
  [][last'.op = "paste" =>
       /\ RxReceived \in {0, 1}
       /\ Len(delivered') = Len(delivered) + RxReceived
       /\ RxReceived = 1 =>
            /\ aciaPasteQueue # <<>>
            /\ RxEmpty
            /\ Occupancy < 192
            /\ aciaPasteQueue' = Tail(aciaPasteQueue)
            /\ RxCell(M', rxHead) = Head(aciaPasteQueue)
       /\ RxReceived = 0 => aciaPasteQueue' = aciaPasteQueue
       /\ Occupancy >= 192 =>
            /\ RxReceived = 0
            /\ aciaPasteQueue' = aciaPasteQueue
            /\ delivered' = delivered
       /\ ram' = ram
  ]_vars

\* a batch ran with a pending byte, an empty receive buffer, the write cursor
\* at 0 and the read cursor at 56 (occupancy 200), and delivered nothing
C3_Witness ==
  /\ last.op = "paste"
  /\ last.val = 0
  /\ aciaPasteQueue # <<>>
  /\ RxEmpty
  /\ ram[WRITE_PTR] = 0
  /\ ram[READ_PTR] = 56
  /\ delivered = <<>>

RECURSIVE LfToCr(_)
LfToCr(text) ==
  IF text = <<>> THEN <<>>
  ELSE <<IF Head(text) = 10 THEN 13 ELSE Head(text)>> \o LfToCr(Tail(text))

IsPrefix(p, q) == Len(p) <= Len(q) /\ \A i \in 1 .. Len(p) : p[i] = q[i]

\* C5: the bytes the paste injector has delivered to the ACIA are, in order,
\* a prefix of the concatenation of the pasted texts with every 0x0A replaced
\* by 0x0D, and the bytes not yet delivered are exactly the paste queue
C5_DeliveredIsPrefix ==
  /\ IsPrefix(delivered, LfToCr(pasted))
  /\ delivered \o aciaPasteQueue = LfToCr(pasted)

\* "A\n" and then the byte 0xC8 were pasted and all three bytes were delivered
C5_Witness ==
  /\ pasted = <<65, 10, 200>>
  /\ delivered = <<65, 13, 200>>
  /\ aciaPasteQueue = <<>>

\* C7: hbc56Reset leaves the paste queue empty
C7_ResetEmptiesPasteQueue ==
  [][last'.op = "reset" => aciaPasteQueue' = <<>>]_vars

----------------------------------------------------------------------------
(* Specification of the flow control: one long text is pasted, and the       *)
(* batches of doTick interleave with the BIOS interrupt handler and with the *)
(* BIOS consumer of the input buffer; paste is the only receive source       *)

\* bounds of the model: length of the pasted text, and bytes the consumer takes
MaxFlowPasted == 196
MaxConsumed == 3

\* value of both cursors when the text is pasted: the input buffer is empty
FlowPtrInputs == {0, 200}

InitFlow ==
  /\ InitMachine
  /\ \E p \in FlowPtrInputs : ram = [a \in RamCells |-> IF a = 32767 THEN 0 ELSE p]
  /\ charSigned \in BOOLEAN

FlowText == [i \in 1 .. MaxFlowPasted |-> 65]
FlowPasteText == pasted = <<>> /\ PasteText(FlowText)
FlowConsumer == Len(delivered) - Occupancy < MaxConsumed /\ Consumer

NextFlow ==
  \/ PasteStartup
  \/ FlowPasteText
  \/ OneBatchDoTick
  \/ BatchPaste
  \/ BatchTick
  \/ FirmwareIrq
  \/ FlowConsumer

SpecFlow == InitFlow /\ [][NextFlow]_vars

\* C4: with the BIOS moving every received byte into its buffer (WRITE_PTR
\* advances by one) and a consumer advancing READ_PTR, paste being the only
\* receive source, (WRITE_PTR - READ_PTR) mod 256 never exceeds 192
C4_NoOverrun == Occupancy <= 192

\* a batch found 192 bytes in the BIOS buffer, the write cursor having wrapped
\* below the read cursor, and delivered nothing of the pending text
C4_Witness ==
  /\ Occupancy = 192
  /\ ram[WRITE_PTR] < ram[READ_PTR]
  /\ last.op = "paste"
  /\ last.val = 0
  /\ aciaPasteQueue # <<>>
  /\ RxEmpty

----------------------------------------------------------------------------
(* Specification of the paste path with its scheduling: doTick is invoked    *)
(* again and again with positive elapsed time, every batch runs to its end,  *)
(* and the BIOS handles its interrupt and consumes its buffer again and      *)
(* again                                                                     *)

\* bound of the model: bytes passed to hbc56PasteText in one behaviour
MaxLivePasted == 2

LiveTextInputs == {<<65>>, <<LF, 66>>}
\* READ_PTR and WRITE_PTR when the program starts to run
LivePtrInputs == {<<0, 0>>, <<0, 193>>}
LiveElapsedInputs == {100, 250}

InitLive ==
  /\ InitMachine
  /\ \E p \in LivePtrInputs :
       ram = [a \in RamCells |-> IF a = READ_PTR THEN p[1]
                                 ELSE IF a = WRITE_PTR THEN p[2] ELSE 0]
  /\ charSigned \in BOOLEAN

LivePasteText ==
  \E text \in LiveTextInputs : Len(pasted) + Len(text) <= MaxLivePasted /\ PasteText(text)
LiveDoTick == \E later \in LiveElapsedInputs : DoTick(0, later)

NextLive ==
  \/ PasteStartup
  \/ LivePasteText
  \/ LiveDoTick
  \/ BatchPaste
  \/ BatchTick
  \/ FirmwareIrq
  \/ Consumer

\* The steps of NextLive as they show in `last`, each with the condition under
\* which the step can be taken: a step of NextLive that satisfies StartupStep
\* is a PasteStartup step, and so on.
StartupStep ==
  /\ pc = "startup"
  /\ last' \in [op : {"startup"}, addr : {HBC56_ROM_SIZE}, val : {234}, sig : {""}, ret : {1}]

\* the main loop calls doTick once per frame while a program is loaded
DoTickStep ==
  /\ pc = "idle"
  /\ programLoaded
  /\ last' \in [op : {"doTick"}, addr : LiveElapsedInputs, val : 1 .. 2, sig : {"run"}, ret : {0}]

\* the loop of doTick runs each of its batches to the end
BatchPasteStep ==
  /\ pc = "paste"
  /\ last' \in [op : {"paste"}, addr : {0}, val : {0, 1}, sig : {""}, ret : {0}]

BatchTickStep ==
  /\ pc = "cputick"
  /\ last' \in [op : {"tick"}, addr : {b}, val : {0}, sig : {"", "lastTime"},
                ret : {0} \cup LiveElapsedInputs]

\* the BIOS handles a pending interrupt, and takes a byte out of a non-empty
\* input buffer
FirmwareIrqStep ==
  /\ pc = "cputick"
  /\ cpuState = CPU_RUNNING
  /\ cpuInt = INTERRUPT_RAISE
  /\ last' \in [op : {"irq"}, addr : {0}, val : 0 .. 255, sig : {""}, ret : {0}]

ConsumerStep ==
  /\ pc = "cputick"
  /\ cpuState = CPU_RUNNING
  /\ ram[READ_PTR] # ram[WRITE_PTR]
  /\ last' \in [op : {"chrin"}, addr : {0}, val : {0}, sig : {""}, ret : {0}]

LiveSpec ==
  /\ InitLive
  /\ [][NextLive]_vars
  /\ WF_last(StartupStep)
  /\ WF_last(DoTickStep)
  /\ WF_last(BatchPasteStep)
  /\ WF_last(BatchTickStep)
  /\ SF_last(FirmwareIrqStep)
  /\ SF_last(ConsumerStep)

\* C6: every byte placed in the paste queue is eventually delivered and the
\* paste queue eventually becomes empty: again and again the queue is empty
\* with as many bytes delivered as were pasted
C6_PasteQueueDrains ==
  []<>(aciaPasteQueue = <<>> /\ Len(delivered) = Len(pasted))

\* "\nB" was pasted while 193 bytes were waiting in the BIOS buffer, and both
\* bytes were delivered
C6_Witness ==
  /\ pasted = <<10, 66>>
  /\ delivered = <<13, 66>>
  /\ aciaPasteQueue = <<>>
  /\ ram[WRITE_PTR] = 195

----------------------------------------------------------------------------
(* Pulse triggers and reset, under the specification of the interrupt        *)
(* aggregator                                                                *)

\* C11: hbc56Interrupt with TRIGGER on a valid source hands the CPU a raised
\* aggregate and leaves that source's level released; no level is ever left at
\* TRIGGER, and any later call that hands the CPU a raised aggregate is itself
\* a TRIGGER or finds some source level raised
C11_TriggerIsOnePulse ==
  [][(last'.op = "interrupt" /\ ValidSource(last'.addr) /\ cpuDevice # NoDevice)
     => /\ Len(Delivered(calls')) = 1
        /\ \A i \in 0 .. MAX_IRQS - 1 : irqs'[i] # INTERRUPT_TRIGGER
        /\ last'.sig = INTERRUPT_TRIGGER =>
             /\ Delivered(calls')[1].sig = INTERRUPT_RAISE
             /\ cpuInt' = INTERRUPT_RAISE
             /\ irqs'[last'.addr - 1] = INTERRUPT_RELEASE
             /\ \A i \in 0 .. MAX_IRQS - 1 : i # last'.addr - 1 => irqs'[i] = irqs[i]
        /\ (last'.sig # INTERRUPT_TRIGGER /\ cpuInt' = INTERRUPT_RAISE)
             => SomeSourceRaised'
  ]_vars

\* source 1 was triggered with every level released: the CPU was handed a
\* raised aggregate although no level is raised after the call
C11_Witness ==
  /\ last.op = "interrupt"
  /\ last.addr = 1
  /\ last.sig = INTERRUPT_TRIGGER
  /\ irqs[0] = INTERRUPT_RELEASE
  /\ ~SomeSourceRaised
  /\ cpuInt = INTERRUPT_RAISE

ResetCalls(c) == SelectSeq(c, LAMBDA x : x.fn = "resetDevice")

\* C12: hbc56Reset calls resetDevice once for every device of the chain, in
\* chain order, and leaves every interrupt source level released
C12_ResetAllDevices ==
  [][last'.op = "reset" =>
       /\ Len(ResetCalls(calls')) = Len(devices)
       /\ \A j \in 1 .. Len(devices) : ResetCalls(calls')[j].dev = j - 1
       /\ devices' = devices
       /\ \A i \in 0 .. MAX_IRQS - 1 : irqs'[i] = INTERRUPT_RELEASE
  ]_vars

\* a reset with source 5 raised before it: every level is released, and the
\* CPU's line still holds the raised aggregate of the ACIA's release
C12_Witness ==
  /\ last.op = "reset"
  /\ Len(devices) = 9
  /\ ~SomeSourceRaised
  /\ cpuInt = INTERRUPT_RAISE

----------------------------------------------------------------------------
(* Specification of the ACIA's receive side: keys arrive from the terminal,  *)
(* the CPU and the debugger read the registers, the CPU writes them, the     *)
(* machine is reset                                                          *)

\* bound of the model: bytes received since the last reset
MaxRxBytes == 3

RxKeyInputs == {65, 66}
RxWriteInputs == {<<33793, 0>>, <<33793, 255>>, <<33794, 2>>, <<33794, 0>>,
                  <<33794, 235>>, <<33795, 31>>}

RxTerminalKey == \E c \in RxKeyInputs : rxHead < MaxRxBytes /\ TerminalKey(c)
RxCpuWrite == \E w \in RxWriteInputs : CpuWrite(w[1], w[2])
RxDebugRead == DebugRead(HBC56_ACIA_ADDR + ACIA_DATA_REG)

NextRx ==
  \/ PasteStartup
  \/ Reset
  \/ RxTerminalKey
  \/ OneBatchDoTick
  \/ BatchPaste
  \/ BatchTick
  \/ AciaCpuRead
  \/ RxCpuWrite
  \/ RxDebugRead

SpecRx == Init /\ [][NextRx]_vars

RxCount == (rxHead - rxTail) % 256
\* the unread bytes, oldest first
RxContents == [i \in 1 .. RxCount |-> RxCell(M, (rxTail + i - 1) % 256)]
DataRead == last'.op = "read" /\ last'.addr = HBC56_ACIA_ADDR + ACIA_DATA_REG
termVars == <<termBuffer, termNul, termScrollToBottom, cursorX>>

\* C13: a non-debug read of the data register with a non-empty receive buffer
\* returns the oldest unread byte and removes it (a received byte is appended
\* behind the unread ones), clears RDRF exactly when the buffer became empty,
\* and leaves the ACIA's source released when the buffer is empty and raised
\* when bytes remain and receive interrupts are enabled
C13_DataReadPopsOldest ==
  [][/\ (DataRead /\ RxCount > 0) =>
          /\ last'.ret = RxContents[1]
          /\ RxContents' = Tail(RxContents)
          /\ RxCount' = RxCount - 1
          /\ RDRF' <=> (RDRF /\ RxCount' # 0)
          /\ RxCount' = 0 => AciaSource' = INTERRUPT_RELEASE
          /\ (RxCount' > 0 /\ ~RxIrqDisabled) => AciaSource' = INTERRUPT_RAISE
     /\ (last'.op = "receive" /\ RxCount < 255) =>
          RxContents' = Append(RxContents, last'.val)
  ]_vars

\* 'A' then 'B' were received, and the CPU read 'A': 'B' remains and the
\* source is still raised
C13_Witness ==
  /\ last.op = "read"
  /\ last.addr = HBC56_ACIA_ADDR + ACIA_DATA_REG
  /\ last.ret = 65
  /\ RxContents = <<66>>
  /\ RDRF
  /\ AciaSource = INTERRUPT_RAISE

\* C15: a non-debug read of the status register returns the status byte as it
\* was, clears bit 7 of the status register and nothing else, and calls
\* neither hbc56Interrupt nor the CPU
C15_StatusReadClearsIrqBit ==
  [][(last'.op = "read" /\ last'.addr = HBC56_ACIA_ADDR + ACIA_STATUS_REG) =>
       /\ last'.ret = statusReg
       /\ statusReg' = IF statusReg >= 128 THEN statusReg - 128 ELSE statusReg
       /\ Delivered(calls') = <<>>
       /\ UNCHANGED <<irqs, cpuInt, commandReg, controlReg, rxBuffer, rxHead, rxTail,
                      termVars>>
  ]_vars

\* the status byte read had the interrupt-pending bit and RDRF set; the bit is
\* now clear while the source and the CPU's line are still raised
C15_Witness ==
  /\ last.op = "read"
  /\ last.addr = HBC56_ACIA_ADDR + ACIA_STATUS_REG
  /\ last.ret = 152
  /\ statusReg = 24
  /\ AciaSource = INTERRUPT_RAISE
  /\ cpuInt = INTERRUPT_RAISE

\* C16: a write of any value to the status register clears bits 0-4 of the
\* command register and keeps bits 5-7, clears the overrun bit of the status
\* register and no other, and leaves the receive buffer, the control register
\* and the terminal output unchanged
C16_ProgrammedReset ==
  [][(last'.op = "write" /\ last'.addr = HBC56_ACIA_ADDR + ACIA_STATUS_REG) =>
       /\ commandReg' = 32 * (commandReg \div 32)
       /\ statusReg' = IF (statusReg \div 4) % 2 = 1 THEN statusReg - 4 ELSE statusReg
       /\ UNCHANGED <<controlReg, rxBuffer, rxHead, rxTail, termVars>>
  ]_vars

\* the command register held 0xEB and holds 0xE0 after the write, with two
\* bytes unread and the control register at 0x1F
C16_Witness ==
  /\ last.op = "write"
  /\ last.addr = HBC56_ACIA_ADDR + ACIA_STATUS_REG
  /\ commandReg = 224
  /\ controlReg = 31
  /\ RxCount = 2
  /\ RDRF

TickCalls(c) == SelectSeq(c, LAMBDA x : x.fn = "tickDevice")

\* C17: aciaDeviceReceiveByte called with RDRF clear returns, no device
\* having been ticked, with RDRF set and, when the receive-interrupt-disable
\* bit is clear, with the ACIA's source raised and a raised aggregate handed to
\* the CPU
C17_ReceiveRaisesAtOnce ==
  [][(last'.op = "receive" /\ ~RDRF) =>
       /\ RDRF'
       /\ TickCalls(calls') = <<>>
       /\ ~RxIrqDisabled =>
            /\ AciaSource' = INTERRUPT_RAISE
            /\ Delivered(calls') = <<Call("interrupt6502", cpuDevice, INTERRUPT_RAISE, 0)>>
            /\ cpuInt' = INTERRUPT_RAISE
       /\ RxIrqDisabled => AciaSource' = INTERRUPT_RELEASE
  ]_vars

\* a key arrived in an empty receive buffer with receive interrupts enabled
C17_Witness ==
  /\ last.op = "receive"
  /\ RxCount = 1
  /\ RDRF
  /\ commandReg = 0
  /\ AciaSource = INTERRUPT_RAISE
  /\ cpuInt = INTERRUPT_RAISE

----------------------------------------------------------------------------
(* Specification of a receive buffer that fills: one key after the other     *)
(* arrives from the terminal, and the CPU reads the data register a few      *)
(* times                                                                     *)

\* bound of the model: bytes the CPU takes out of the receive buffer between
\* resets
MaxFillRead == 2

FillKey == TerminalKey(65)
FillRead == rxTail < MaxFillRead /\ CpuRead(HBC56_ACIA_ADDR + ACIA_DATA_REG)

NextFill ==
  \/ PasteStartup
  \/ FillKey
  \/ OneBatchDoTick
  \/ BatchPaste
  \/ BatchTick
  \/ FillRead

SpecFill == Init /\ [][NextFill]_vars

\* C14: every received byte raises the occupancy (head - tail) mod 256 by one
\* and every data-register read that finds the buffer non-empty lowers it by
\* one, so the occupancy is the number of injections minus the number of such
\* reads; a data-register read on an empty buffer returns 0 and leaves head,
\* tail, status, command register and the interrupt source levels unchanged
C14_OccupancyCounts ==
  [][/\ last'.op = "receive" => RxCount' = RxCount + 1
     /\ (DataRead /\ RxCount > 0) => RxCount' = RxCount - 1
     /\ (DataRead /\ RxCount = 0) =>
          /\ last'.ret = 0
          /\ UNCHANGED <<rxHead, rxTail, statusReg, commandReg, irqs>>
  ]_vars

----------------------------------------------------------------------------
(* Specification of the terminal output: the CPU writes bytes to the ACIA    *)
(* data register, the machine is reset                                       *)

\* bound of the model: characters stored in the terminal output
MaxTermLen == 3

TermInputs == {CR, LF, BS, DEL, TAB, 0, 31, 32, 65, 128, 255}

TermWrite ==
  \E v \in TermInputs :
    Len(termBuffer) < MaxTermLen /\ CpuWrite(HBC56_ACIA_ADDR + ACIA_DATA_REG, v)

NextTerm ==
  \/ PasteStartup
  \/ Reset
  \/ OneBatchDoTick
  \/ BatchPaste
  \/ BatchTick
  \/ TermWrite
  \/ TerminalRender

SpecTerm == Init /\ [][NextTerm]_vars

DataWrite == last'.op = "write" /\ last'.addr = HBC56_ACIA_ADDR + ACIA_DATA_REG
EndsInNewline == termBuffer # <<>> /\ termBuffer[Len(termBuffer)] = 10
Erased == SubSeq(termBuffer, 1, Len(termBuffer) - 1)

C19_Backspace ==
  [][(DataWrite /\ last'.val \in {8, 127}) =>
       IF termBuffer # <<>> /\ ~EndsInNewline
         THEN termBuffer' = Erased /\ cursorX' = cursorX - 1
         ELSE termBuffer' = termBuffer /\ cursorX' = cursorX
  ]_vars

\* a delete was written with "A", newline stored: nothing was erased
C19_Witness ==
  /\ last.op = "write"
  /\ last.val = 127
  /\ termBuffer = <<65, 10>>
  /\ cursorX = 0

\* C20: a byte of value 0x20 or above other than 0x7F, the values 0x80-0xFF
\* included, and the tab byte are appended to the stored output unchanged and
\* increment the cursor column; every other byte except CR, LF, backspace and
\* delete leaves the stored output unchanged
C20_PrintableAppended ==
  [][/\ (DataWrite /\ (last'.val = 9 \/ (last'.val >= 32 /\ last'.val # 127))) =>
          /\ termBuffer' = Append(termBuffer, last'.val)
          /\ cursorX' = cursorX + 1
     /\ (DataWrite /\ last'.val < 32 /\ last'.val \notin {13, 10, 8, 9}) =>
          termBuffer' = termBuffer
  ]_vars

----------------------------------------------------------------------------
(* Specification of the terminal output near its capacity: the run starts   *)
(* after main's ROM load and reset, with the output that a run of printable *)
(* bytes written to the data register has left, at most MaxTrimRoom short   *)
(* of the margin, and the CPU writes further bytes                           *)

\* bound of the model: room left below the margin when the run starts
MaxTrimRoom == 2

TermMargin == ACIA_TERM_BUF_SIZE - 256
TrimStartLen == TermMargin - MaxTrimRoom
TrimStartLens == TrimStartLen .. TermMargin

\* the printable bytes 0x20 .. 0x7E in rotation
FilledOutput(n) == [i \in 1 .. n |-> 32 + (i % 95)]

\* the machine main has set up (InitMachine as a record)
MainMachine(signed) ==
  [devices |-> <<"cpu", "ram", "tms9918", "ay38910", "acia", "via2", "via1", "keyboard">>,
   cpuDevice |-> 0, romDevice |-> NoDevice, aciaDevice |-> 4,
   ram |-> [a \in RamCells |-> 0], romData |-> 0,
   commandReg |-> 0, controlReg |-> 0, statusReg |-> ACIA_STATUS_TDRE,
   rxBuffer |-> [i \in {} |-> 0], rxHead |-> 0, rxTail |-> 0,
   termBuffer |-> <<>>, termNul |-> 0, termScrollToBottom |-> 0, cursorX |-> 0,
   irqs |-> [i \in 0 .. MAX_IRQS - 1 |-> INTERRUPT_RELEASE],
   cpuInt |-> INTERRUPT_RELEASE, cpuState |-> CPU_RUNNING,
   programLoaded |-> FALSE, aciaPasteQueue |-> <<>>, kbQueueMutex |-> 0,
   calls |-> <<>>, charSigned |-> signed]

\* main's loadRom and hbc56Reset, then n writes of printable bytes
FilledMachine(signed, n) ==
  [hbc56Reset(loadRom(MainMachine(signed), TRUE, HBC56_ROM_SIZE, 234).s)
     EXCEPT !.termBuffer = FilledOutput(n), !.termNul = n,
            !.termScrollToBottom = 1, !.cursorX = n, !.calls = <<>>]

InitTrim ==
  /\ charSigned \in BOOLEAN
  /\ \E n \in TrimStartLens :
     LET s == FilledMachine(charSigned, n)
     IN /\ devices = s.devices
        /\ cpuDevice = s.cpuDevice
        /\ romDevice = s.romDevice
        /\ aciaDevice = s.aciaDevice
        /\ ram = s.ram
        /\ romData = s.romData
        /\ commandReg = s.commandReg
        /\ controlReg = s.controlReg
        /\ statusReg = s.statusReg
        /\ rxBuffer = s.rxBuffer
        /\ rxHead = s.rxHead
        /\ rxTail = s.rxTail
        /\ termBuffer = s.termBuffer
        /\ termNul = s.termNul
        /\ termScrollToBottom = s.termScrollToBottom
        /\ cursorX = s.cursorX
        /\ irqs = s.irqs
        /\ cpuInt = s.cpuInt
        /\ cpuState = s.cpuState
        /\ programLoaded = s.programLoaded
        /\ aciaPasteQueue = s.aciaPasteQueue
        /\ kbQueueMutex = s.kbQueueMutex
        /\ calls = s.calls
  /\ pc = "idle"
  /\ batches = 0
  /\ b = 0
  /\ lastTime = NoTime
  /\ currentTime = 0
  /\ last = Op("startup", HBC56_ROM_SIZE, 234, "", 1)
  /\ pasted = <<>>
  /\ delivered = <<>>

TrimInputs == {65, CR, BS, 7, 200}

TrimWrite ==
  \E v \in TrimInputs :
    /\ Len(termBuffer) >= TrimStartLen
    /\ CpuWrite(HBC56_ACIA_ADDR + ACIA_DATA_REG, v)

NextTrim ==
  \/ OneBatchDoTick
  \/ BatchPaste
  \/ BatchTick
  \/ TrimWrite

SpecTrim == InitTrim /\ [][NextTrim]_vars

\* C21: after any sequence of data-register writes the output length is
\* between 0 and capacity - 1 and the terminator stored last is at index
\* length; a write that takes the length past the margin (capacity - 256)
\* discards the oldest floor(length / 2) characters and keeps the remaining
\* ones, in order, at the front of the buffer
C21_LengthAndTrim ==
  [][/\ Len(termBuffer') >= 0
     /\ Len(termBuffer') <= ACIA_TERM_BUF_SIZE - 1
     /\ DataWrite => termNul' = Len(termBuffer')
     /\ (DataWrite /\ Len(termBuffer) = TermMargin
           /\ (last'.val = 13 \/ (last'.val >= 32 /\ last'.val < 127))) =>
          LET stored == IF last'.val = 13 THEN 10 ELSE last'.val
              half == (TermMargin + 1) \div 2
              kept == TermMargin + 1 - half
          IN /\ Len(termBuffer') = kept
             /\ SubSeq(termBuffer', 1, kept - 1) = SubSeq(termBuffer, half + 1, TermMargin)
             /\ termBuffer'[kept] = stored
     /\ (DataWrite /\ Len(termBuffer) < TermMargin) =>
          /\ Len(termBuffer') \in {Len(termBuffer) - 1, Len(termBuffer), Len(termBuffer) + 1}
          /\ SubSeq(termBuffer', 1, Len(termBuffer) - 1)
               = SubSeq(termBuffer, 1, Len(termBuffer) - 1)
  ]_vars

\* a write at the margin has discarded the older half
C21_Witness ==
  /\ last.op = "write"
  /\ last.val = 65
  /\ Len(termBuffer) = TermMargin + 1 - ((TermMargin + 1) \div 2)
  /\ termBuffer[Len(termBuffer)] = 65
  /\ termNul = Len(termBuffer)

----------------------------------------------------------------------------
(* Address decoding of the ACIA *)

InAciaRange(addr) == HBC56_ACIA_ADDR <= addr /\ addr <= HBC56_ACIA_ADDR + 3

DecodeAddrs == {0, 1, 255, 32767, 32768, 33535, 33791, 33792, 33793, 33794, 33795,
                33796, 34047, 65535}

AciaProbes(c) ==
  SelectSeq(c, LAMBDA x : x.fn \in {"readDevice", "writeDevice"} /\ x.dev = aciaDevice)

\* C22: the ACIA's read and write handlers claim an address exactly when
\* base <= address <= base + 3; for any other address, those below the base
\* included, they return not-claimed and leave the ACIA's state and its
\* interrupt source unchanged
C22_AciaClaimsItsRange ==
  /\ \A addr \in DecodeAddrs, dbg \in BOOLEAN :
       LET r == readAciaDevice(M, addr, 0, dbg)
           w == writeAciaDevice(M, addr, 0)
       IN /\ r.claimed = InAciaRange(addr)
          /\ w.claimed = InAciaRange(addr)
          /\ ~InAciaRange(addr) => r.s = M /\ w.s = M /\ r.val = 0
  /\ \A j \in 1 .. Len(AciaProbes(calls)) :
       LET p == AciaProbes(calls)[j]
       IN (p.sig = "claimed") = InAciaRange(p.n)

\* a write below the base, at 0x8000, was offered to the ACIA, which did not
\* claim it
C22_Witness ==
  /\ last.op = "write"
  /\ last.addr = HBC56_ROM_START
  /\ \E j \in 1 .. Len(calls) :
       calls[j] = Call("writeDevice", aciaDevice, "miss", HBC56_ROM_START)

----------------------------------------------------------------------------
(* The scroll-to-bottom flag *)

\* C23: aciaGetScrollToBottom returns true exactly when a byte was written to
\* the data register since the previous call, and resets the flag: every
\* data-register write sets the flag, the call returns the flag and clears
\* it, and nothing else changes it
C23_ScrollFlagOneShot ==
  [][/\ DataWrite => termScrollToBottom' = 1
     /\ last'.op = "scroll" => last'.ret = termScrollToBottom /\ termScrollToBottom' = 0
     /\ (~DataWrite /\ last'.op # "scroll") => termScrollToBottom' = termScrollToBottom
  ]_vars

\* with output stored, the call returned false: an earlier call had consumed
\* the flag and no byte was written since
C23_Witness ==
  /\ last.op = "scroll"
  /\ last.ret = 0
  /\ termBuffer # <<>>

----------------------------------------------------------------------------
(* Specification of the catch-up tick driver: doTick is invoked after       *)
(* various delays, with and without pasted text waiting                      *)

\* bound of the model: bytes handed to hbc56PasteText
MaxTickPasted == 2

\* microseconds between the stored timestamp and the invocation
TickElapsedInputs == {-5, 0, 50, 99, 100, 199, 250, 50000, 50001, 250000}

TickPasteText == Len(pasted) < MaxTickPasted /\ PasteText(<<65>>)
TickDoTick == \E later \in TickElapsedInputs : DoTick(0, later)

NextTick ==
  \/ PasteStartup
  \/ TickPasteText
  \/ TickDoTick
  \/ BatchPaste
  \/ BatchTick

SpecTick == Init /\ [][NextTick]_vars

\* the step that ends the last batch of an invocation, and the time that
\* invocation found elapsed
LastBatch == pc = "cputick" /\ pc' = "idle"
Elapsed == currentTime - lastTime
Max(x, y) == IF x >= y THEN x ELSE y

\* C24: a doTick invocation whose current time is not later than the stored
\* timestamp executes no batch, attempts no paste, ticks no device and leaves
\* the stored timestamp unchanged
C24_NoElapsedNoWork ==
  [][(last'.op = "doTick" /\ last'.addr <= 0) =>
       /\ pc' = "idle"
       /\ calls' = <<>>
       /\ UNCHANGED <<aciaVars, irqs, cpuInt, ram, aciaPasteQueue, delivered, batches, b>>
       /\ lastTime # NoTime => lastTime' = lastTime
  ]_vars

\* doTick returned at once with a pasted byte waiting and the clock behind the
\* stored timestamp
C24_Witness ==
  /\ last.op = "doTick"
  /\ last.addr = -5
  /\ last.sig = "return"
  /\ pc = "idle"
  /\ lastTime = 0
  /\ aciaPasteQueue # <<>>

\* C25: a doTick invocation with 0 < elapsed <= 50 ms executes
\* max(1, floor(elapsed / 100 us)) batches: invocations less than one batch
\* duration apart execute one batch each, and never zero batches
C25_BatchesFromElapsed ==
  [][/\ (last'.op = "doTick" /\ last'.addr > 0 /\ last'.addr <= 50000) =>
          /\ pc' = "paste"
          /\ batches' = Max(1, last'.addr \div 100)
     /\ (LastBatch /\ Elapsed > 0 /\ Elapsed <= 50000) =>
          b' = Max(1, Elapsed \div 100)
  ]_vars

\* the second of two invocations 99 us apart has run its one batch
C25_Witness ==
  /\ last.op = "tick"
  /\ last.sig = "lastTime"
  /\ last.ret = 99
  /\ b = 1
  /\ pc = "idle"

\* C26: no doTick invocation executes more than 500 batches: with more than
\* 50 ms elapsed exactly 500 run, and the stored timestamp is set to the
\* invocation's current time, so the time beyond the cap is not run later
C26_CappedAtFiftyMs ==
  [][/\ b' <= 500
     /\ (LastBatch /\ Elapsed > 50000) =>
          /\ b' = 500
          /\ currentTime' = Rebase(currentTime, currentTime)
          /\ lastTime' = currentTime'
  ]_vars

\* an invocation 50.001 ms after the previous one has finished after 500
\* batches
C26_Witness ==
  /\ last.op = "tick"
  /\ last.sig = "lastTime"
  /\ last.ret = 50001
  /\ b = 500
  /\ pc = "idle"
  /\ lastTime = currentTime

\* C27 as claimed: a doTick invocation made 250 ms after the previous one
\* executes the 1000 batches of 100 ms
C27_BatchesOfHundredMs ==
  [][(LastBatch /\ Elapsed = 250000) => b' = 1000]_vars

\* C27 as amended: a doTick invocation made 250 ms after the previous one
\* executes the 500 batches of 50 ms, not those of 250 ms
C27_BatchesOfFiftyMs ==
  [][(LastBatch /\ Elapsed = 250000) => b' = 500 /\ b' # 2500]_vars

\* an invocation 250 ms after the previous one has finished
C27_Witness ==
  /\ last.op = "tick"
  /\ last.sig = "lastTime"
  /\ last.ret = 250000
  /\ pc = "idle"

\* C28: in every batch of doTick the paste attempt comes before any device
\* tick, then every registered device is ticked once, in chain order, with
\* 400 cycles; the stored timestamp is written once, after the last batch,
\* with the time sampled before the first batch
C28_BatchOrder ==
  [][/\ last'.op = "paste" =>
          /\ TickCalls(calls') = <<Call("tickDevice", 0, "", 400)>>
          /\ calls'[Len(calls')] = Call("tickDevice", 0, "", 400)
          /\ pc' = "cputick"
          /\ UNCHANGED <<lastTime, currentTime, b>>
     /\ last'.op = "tick" =>
          /\ pc = "cputick"
          /\ TickCalls(calls') =
               [i \in 1 .. Len(devices) - 1 |-> Call("tickDevice", i, "", 400)]
          /\ b' = b + 1
          /\ IF b' < batches
               THEN UNCHANGED <<lastTime, currentTime>>
               ELSE /\ currentTime' = Rebase(currentTime, currentTime)
                    /\ lastTime' = currentTime'
  ]_vars

\* a batch whose paste attempt read both cursors and handed a byte to the ACIA
\* before the CPU device was ticked
C28_Witness ==
  /\ last.op = "paste"
  /\ last.val = 1
  /\ Len(calls) > 1
  /\ calls[Len(calls)].fn = "tickDevice"
  /\ batches > 1

----------------------------------------------------------------------------
(* Firmware loads of the wrong size *)

ErrorShown(c) ==
  \E j \in 1 .. Len(c) : c[j] = Call("SDL_ShowSimpleMessageBox", NoDevice, "error", 0)

\* C29: a load of a firmware image whose size is not 32768 bytes, smaller or
\* larger, is rejected: an error is reported, the load returns failure and the
\* ROM contents are not replaced
C29_WrongSizeRejected ==
  [][(last'.op = "load" /\ last'.sig = "file" /\ last'.addr # 32768) =>
       /\ ErrorShown(calls')
       /\ last'.ret = 0
       /\ romData' = romData
  ]_vars

\* C30: a firmware load rejected for its size, through the file dialog or a
\* dropped file, leaves the device chain, the ROM contents, the ACIA's
\* registers and receive buffer and the interrupt sources as they were
C30_RejectedLoadChangesNothing ==
  [][(last'.op = "load" /\ last'.sig = "file" /\ last'.ret = 0) =>
       UNCHANGED <<devices, romDevice, romData, commandReg, controlReg, statusReg,
                   rxBuffer, rxHead, rxTail, irqs>>
  ]_vars

----------------------------------------------------------------------------
(* Specification of firmware loading: loads of files of several sizes at    *)
(* startup and later, resets, keys typed into the terminal                   *)

\* bound of the model: receive-buffer head index
MaxLoadRx == 1

LoadTerminalKey == rxHead < MaxLoadRx /\ TerminalKey(65)

NextLoad ==
  \/ DoStartup
  \/ DoLoadFile
  \/ Reset
  \/ LoadTerminalKey
  \/ OneBatchDoTick
  \/ BatchPaste
  \/ BatchTick

SpecLoad == Init /\ [][NextLoad]_vars

RomCount(d) == Cardinality({i \in 1 .. Len(d) : d[i] = "rom"})
RomTouches(c) ==
  {j \in 1 .. Len(c) : c[j].fn \in {"createRomDevice", "setMemoryDeviceContents"}}

\* C31: at most one ROM device is ever registered: the first successful load
\* creates it and every later one replaces its contents, the device count and
\* the chain order unchanged; every successful load puts the CPU in the break
\* state before it touches the ROM and ends with a full reset
C31_OneRomDevice ==
  [][/\ RomCount(devices') <= 1
     /\ (last'.op \in {"load", "startup"} /\ last'.ret = 1) =>
          /\ IF romDevice = NoDevice
               THEN devices' = Append(devices, "rom") /\ romDevice' = Len(devices)
               ELSE devices' = devices /\ romDevice' = romDevice
          /\ romData' = last'.val
          /\ calls'[1] = Call("debug6502State", cpuDevice, CPU_BREAK, 0)
          /\ RomTouches(calls') # {}
          /\ \A j \in RomTouches(calls') : j > 1
          /\ ResetCalls(calls') # <<>>
          /\ calls'[Len(calls')] = Call("debug6502State", cpuDevice, CPU_RUNNING, 0)
          /\ cpuState' = CPU_RUNNING
          /\ \A i \in 0 .. MAX_IRQS - 1 : irqs'[i] = INTERRUPT_RELEASE
          /\ rxHead' = 0 /\ rxTail' = 0 /\ statusReg' = ACIA_STATUS_TDRE
  ]_vars

\* a second successful load replaced the image: the ROM device, created by
\* the first, is still the last of nine devices
C31_Witness ==
  /\ last.op = "load"
  /\ last.ret = 1
  /\ romData = 76
  /\ Len(devices) = 9
  /\ romDevice = 8
  /\ \E j \in 1 .. Len(calls) : calls[j].fn = "setMemoryDeviceContents"

----------------------------------------------------------------------------
(* Specification of the device chain up to its capacity: further devices    *)
(* are registered before the ROM is loaded, then the bus is used              *)

ChainKindInputs == {"keyboard"}
ChainReadInputs == {1, 32768, 33792, 65535}
ChainWriteInputs == {<<1, 200>>, <<33794, 2>>, <<65535, 7>>}

ChainAddDevice == \E k \in ChainKindInputs : AddDevice(k)
ChainCpuRead == \E a \in ChainReadInputs : CpuRead(a)
ChainCpuWrite == \E w \in ChainWriteInputs : CpuWrite(w[1], w[2])
ChainDebugRead == \E a \in ChainReadInputs : DebugRead(a)

NextChain ==
  \/ ChainAddDevice
  \/ DoStartup
  \/ Reset
  \/ OneBatchDoTick
  \/ BatchPaste
  \/ BatchTick
  \/ ChainCpuRead
  \/ ChainCpuWrite
  \/ ChainDebugRead

SpecChain == Init /\ [][NextChain]_vars

\* C32: hbc56AddDevice on a chain that takes no more devices returns NULL and
\* leaves the device count and every chain entry unchanged; the device count
\* never exceeds HBC56_MAX_DEVICES, and a registered device keeps its index
C32_FullChainRejects ==
  [][/\ Len(devices') <= HBC56_MAX_DEVICES
     /\ Len(devices') >= Len(devices)
     /\ \A i \in 1 .. Len(devices) : devices'[i] = devices[i]
     /\ cpuDevice' = cpuDevice /\ aciaDevice' = aciaDevice
     /\ romDevice # NoDevice => romDevice' = romDevice
     /\ (last'.op = "add" /\ last'.ret = NoDevice) =>
          UNCHANGED <<machineVars>>
     /\ (last'.op = "add" /\ last'.ret # NoDevice) =>
          /\ last'.ret = Len(devices)
          /\ devices' = Append(devices, last'.sig)
  ]_vars

\* a registration was refused on the chain holding all it takes
C32_Witness ==
  /\ last.op = "add"
  /\ last.ret = NoDevice
  /\ Len(devices) = HBC56_MAX_DEVICES - 1

AllMiss(p) == \A j \in 1 .. Len(p) : p[j].sig = "miss"

\* C33: a bus access to an address no device claims returns after probing
\* every registered device once: hbc56MemRead returns 0x00 and hbc56MemWrite
\* changes no device state
C33_UnclaimedAccess ==
  [][(last'.op \in BusOps /\ AllMiss(Probes(calls'))) =>
       /\ Len(Probes(calls')) = Len(devices)
       /\ \A j \in 1 .. Len(devices) :
            /\ Probes(calls')[j].dev = j - 1
            /\ Probes(calls')[j].n = last'.addr
       /\ last'.op # "write" => last'.ret = 0
       /\ UNCHANGED <<devices, cpuDevice, romDevice, aciaDevice, ram, romData, aciaVars,
                      irqs, cpuInt, cpuState, programLoaded, aciaPasteQueue>>
  ]_vars

\* a CPU read of 0xFFFF with no ROM in the chain (the full chain refused it)
\* went through all fifteen devices
C33_Witness ==
  /\ last.op = "read"
  /\ last.addr = 65535
  /\ last.ret = 0
  /\ romDevice = NoDevice
  /\ Len(Probes(calls)) = HBC56_MAX_DEVICES - 1
  /\ AllMiss(Probes(calls))

\* C39: hbc56AddDevice succeeds whenever fewer than HBC56_MAX_DEVICES devices
\* are registered: the 16th registration returns a handle and is added to the
\* chain
C39_SixteenthDeviceAdded ==
  [][(last'.op = "add" /\ Len(devices) < HBC56_MAX_DEVICES) =>
       /\ last'.ret # NoDevice
       /\ devices' = Append(devices, last'.sig)
  ]_vars

----------------------------------------------------------------------------
(* RDRF and the occupancy of the receive buffer *)

\* C35: in every reachable state, RDRF set implies that the receive buffer is
\* non-empty, also after 256 or more bytes are received with no read between
\* them
C35_RdrfMeansData == RDRF => RxCount > 0

\* C36: in every state between two operations a non-empty receive buffer
\* implies RDRF set, so tickAciaDevice's condition is false and the tick
\* handler changes nothing of the machine
C36_DataMeansRdrf ==
  /\ RxCount > 0 => RDRF
  /\ tickAciaDevice(M) = M

\* a batch's device ticks have run with two unread bytes in the buffer, of
\* which the CPU took the first
C36_Witness ==
  /\ last.op = "tick"
  /\ rxHead = 3
  /\ rxTail = 1
  /\ RDRF

\* C37: a debug read of an ACIA register leaves the receive buffer's head,
\* tail and occupancy, the status, command and control registers and the
\* interrupt source levels unchanged
C37_DebugReadChangesNothing ==
  [][(last'.op = "dbgread" /\ InAciaRange(last'.addr)) =>
       /\ UNCHANGED <<rxHead, rxTail, statusReg, commandReg, controlReg, irqs>>
       /\ RxCount' = RxCount
  ]_vars

----------------------------------------------------------------------------
(* Specification of resets of a used ACIA: bytes received and read, command  *)
(* and control registers written, terminal output stored and rendered        *)

\* bounds of the model: bytes received between resets, characters of stored
\* terminal output
MaxResetRx == 2
MaxResetTerm == 2

ResetWriteInputs == {<<33792, 65>>, <<33792, CR>>, <<33793, 0>>, <<33794, 0>>,
                     <<33794, 235>>, <<33795, 31>>}

ResetTerminalKey == rxHead < MaxResetRx /\ TerminalKey(65)
ResetCpuWrite ==
  \E w \in ResetWriteInputs :
    /\ (w[1] = HBC56_ACIA_ADDR + ACIA_DATA_REG => Len(termBuffer) < MaxResetTerm)
    /\ CpuWrite(w[1], w[2])

NextReset ==
  \/ PasteStartup
  \/ Reset
  \/ ResetTerminalKey
  \/ OneBatchDoTick
  \/ BatchPaste
  \/ BatchTick
  \/ AciaCpuRead
  \/ ResetCpuWrite
  \/ TerminalRender

SpecReset == Init /\ [][NextReset]_vars

TDRE == BitSet(statusReg, ACIA_STATUS_TDRE)

\* resetAciaDevice applied to the current machine: registers cleared, status
\* exactly TDRE, buffer empty, source released, terminal untouched
ResetOutcome ==
  LET r == resetAciaDevice(M)
  IN /\ r.commandReg = 0
     /\ r.controlReg = 0
     /\ r.statusReg = ACIA_STATUS_TDRE
     /\ r.rxHead = 0
     /\ r.rxTail = 0
     /\ r.irqs[HBC56_ACIA_IRQ - 1] = INTERRUPT_RELEASE
     /\ r.termBuffer = termBuffer
     /\ r.termNul = termNul
     /\ r.cursorX = cursorX
     /\ r.termScrollToBottom = termScrollToBottom

\* C40: the ACIA's reset handler clears the command and control registers,
\* sets the status register to exactly TDRE, empties the receive buffer with
\* head = tail = 0 and releases the ACIA's interrupt source, and leaves the
\* terminal output, its length, the cursor column and the scroll flag
\* unchanged, whatever state it is called in and in every reset of the
\* machine; TDRE is set in every reachable state
C40_AciaReset ==
  /\ [](TDRE /\ ResetOutcome)
  /\ [][last'.op = "reset" =>
          /\ commandReg' = 0
          /\ controlReg' = 0
          /\ statusReg' = ACIA_STATUS_TDRE
          /\ rxHead' = 0
          /\ rxTail' = 0
          /\ AciaSource' = INTERRUPT_RELEASE
          /\ UNCHANGED termVars
     ]_vars

\* a reset of an ACIA with stored terminal output and a pending scroll
\* request: registers and buffer are cleared, the output is kept
C40_Witness ==
  /\ last.op = "reset"
  /\ rxHead = 0
  /\ statusReg = ACIA_STATUS_TDRE
  /\ termBuffer = <<65, 10>>
  /\ cursorX = 0
  /\ termScrollToBottom = 1

----------------------------------------------------------------------------
(* Specification of the event handler and the queue mutex: doEvents with no  *)
(* event, a key, Ctrl+R, Ctrl+V or a dropped file, the batches of doTick     *)
(* that consume the pasted bytes, and bus reads                              *)

\* bounds of the model: bytes pasted, files dropped
MaxEventsPasted == 2
MaxDrops == 2

EventTextInputs == {<<65>>, <<LF>>}
EventFileInputs == {<<TRUE, 32768>>, <<TRUE, 100>>, <<FALSE, 0>>}

NoEvent == [type |-> "none"]
KeyEvent == [type |-> "key"]
ResetEvent == [type |-> "reset"]
PasteEvent(text) == [type |-> "paste", text |-> text]
DropEvent(fileExists, fileSize, data) ==
  [type |-> "drop", fileExists |-> fileExists, fileSize |-> fileSize, data |-> data]

\* doEvents polling one event; drain tells whether the keyboard device's
\* queue is empty and pasteQueue is not, so that the handler hands queued
\* key events to the devices
doEvents(s, event, drain) ==
  LET s0 == SDL_LockMutex(s)
  IN IF event.type = "drop"
       THEN hbc56Reset(loadRom(s0, event.fileExists, event.fileSize, event.data).s)
       ELSE LET s1 == IF event.type = "reset" THEN hbc56Reset(s0)
                      ELSE IF event.type = "paste" THEN hbc56PasteText(s0, event.text)
                      ELSE IF event.type = "key" THEN QueueAccess(s0, "pasteQueue", "push")
                      ELSE s0
                s2 == IF drain THEN QueueAccess(s1, "pasteQueue", "pop") ELSE s1
            IN SDL_UnlockMutex(s2)

Events(event, drain) ==
  /\ pc = "idle"
  /\ Commit(doEvents(M, event, drain))
  /\ pasted' = IF event.type = "paste" THEN pasted \o event.text ELSE pasted
  /\ last' = Op("doEvents", 0, 0, event.type, 0)
  /\ HostFrame
  /\ UNCHANGED delivered

EventsIdle == \E drain \in BOOLEAN : Events(NoEvent, drain)
EventsKey == \E drain \in BOOLEAN : Events(KeyEvent, drain)
EventsReset == \E drain \in BOOLEAN : Events(ResetEvent, drain)
EventsPaste ==
  \E text \in EventTextInputs, drain \in BOOLEAN :
    Len(pasted) < MaxEventsPasted /\ Events(PasteEvent(text), drain)
EventsDropFile ==
  \E f \in EventFileInputs :
    kbQueueMutex < MaxDrops /\ Events(DropEvent(f[1], f[2], 234), FALSE)

NextEvents ==
  \/ PasteStartup
  \/ EventsIdle
  \/ EventsKey
  \/ EventsReset
  \/ EventsPaste
  \/ EventsDropFile
  \/ OneBatchDoTick
  \/ BatchPaste
  \/ BatchTick
  \/ AciaCpuRead
  \/ RxDebugRead

SpecEvents == Init /\ [][NextEvents]_vars

SharedQueues == {"pasteQueue", "aciaPasteQueue"}
Locks(c) == SelectSeq(c, LAMBDA x : x.fn = "SDL_LockMutex")
Unlocks(c) == SelectSeq(c, LAMBDA x : x.fn = "SDL_UnlockMutex")
\* the operation in progress has locked more often than unlocked before its
\* j-th call
LockedAt(c, j) == Len(Locks(SubSeq(c, 1, j - 1))) > Len(Unlocks(SubSeq(c, 1, j - 1)))

\* C34: every access to the paste and event queues (the appends of
\* hbc56PasteText, the drain of doEvents, the consumption of the ACIA paste
\* queue in doTick) and every probe of a bus read is made while the mutex is
\* held
C34_QueuesUnderMutex ==
  \A j \in 1 .. Len(calls) :
    /\ calls[j].fn \in SharedQueues => calls[j].n > 0
    /\ (last.op \in {"read", "dbgread"} /\ calls[j].fn = "readDevice") => LockedAt(calls, j)

\* C38: the main thread holds the mutex at no time between two handlers
\* (doEvents with any event, the dropped file included), and every
\* operation, hbc56PasteText and hbc56MemRead included, unlocks as often as
\* it locks
C38_MutexReleased ==
  /\ kbQueueMutex = 0
  /\ Len(Locks(calls)) = Len(Unlocks(calls))

====
